---------------------------- MODULE Spec2Model ----------------------------
(***************************************************************************)
(* SkyPulse: the price-intelligence engine (skypulse-price) and the deal   *)
(* matcher (skypulse-email/matching) as state machines.                    *)
(*                                                                         *)
(* Time is counted in whole days.  Prices are integers.  A value that may *)
(* be Python's None is a sequence: None is <<>>, the value x is <<x>>.     *)
(***************************************************************************)
EXTENDS Integers, Sequences, FiniteSets, TLC

VARIABLES
    now,            \* datetime.now(), in days
    adds,           \* how many add_price calls have been made
    price_history,  \* PriceIntelligence.price_history: route -> list of PricePoint
    alerts,         \* PriceIntelligence.alerts: route -> list of PriceAlert
    last,           \* the latest call made on the engine and its arguments
    seasonal_patterns, \* PriceIntelligence.seasonal_patterns: route -> the
                    \* patterns analyze_seasonal_patterns stored
    answer,         \* the latest query made on the engine: the history it
                    \* read and what it returned
    subscriptions,  \* the subscriptions table, Subscription.id = the index
    call,           \* the latest match_deal_to_subscriptions call: its deal,
                    \* the size of the table it read, the scores computed
                    \* in its loop, what it returned
    probe,          \* a single _calculate_match_score call: deal,
                    \* subscription and result
    threads,        \* the calls being made on the engine by concurrent
                    \* callers: for each the call, the statement it is
                    \* at and its local variables
    list_id         \* route -> which list object price_history holds for
                    \* the route, counted by the assignments made to
                    \* self.price_history[route]

pvars == <<now, adds, price_history, alerts, last, seasonal_patterns, answer>>

mvars == <<subscriptions, call>>

tvars == <<threads, list_id>>

vars == <<pvars, mvars, probe, tvars>>

None == <<>>
Some(x) == <<x>>
IsNone(o) == o = <<>>
Value(o) == o[1]

----------------------------------------------------------------------------
(* Strings are sequences of one-character strings, so that lower(), strip()
   and the substring test can be computed.  Numbers that are floats in the
   source are exact fractions <<numerator, denominator>> in lowest terms,
   with a positive denominator. *)

Abs(n) == IF n < 0 THEN -n ELSE n

RECURSIVE GCD(_, _)
GCD(a, b) == IF b = 0 THEN a ELSE GCD(b, a % b)

Rat(n, d) ==
    LET g == GCD(Abs(n), Abs(d))
        sgn == IF d < 0 THEN -1 ELSE 1
    IN <<(sgn * n) \div g, (sgn * d) \div g>>

Whole(n) == <<n, 1>>
RAdd(a, b) == Rat(a[1] * b[2] + b[1] * a[2], a[2] * b[2])
RSub(a, b) == Rat(a[1] * b[2] - b[1] * a[2], a[2] * b[2])
RMul(a, b) == Rat(a[1] * b[1], a[2] * b[2])
RDiv(a, b) == Rat(a[1] * b[2], a[2] * b[1])
RLe(a, b) == a[1] * b[2] <= b[1] * a[2]
RLt(a, b) == a[1] * b[2] < b[1] * a[2]
RMin(a, b) == IF RLe(a, b) THEN a ELSE b

UpperCase == <<"A", "B", "C", "D", "E", "F", "G", "H", "I", "J", "K", "L", "M", "N", "O", "P", "Q", "R", "S", "T", "U", "V", "W", "X", "Y", "Z">>
LowerCase == <<"a", "b", "c", "d", "e", "f", "g", "h", "i", "j", "k", "l", "m", "n", "o", "p", "q", "r", "s", "t", "u", "v", "w", "x", "y", "z">>
Whitespace == {" "}

ToLower ==
    [c \in {UpperCase[k] : k \in DOMAIN UpperCase} |->
        LowerCase[CHOOSE k \in DOMAIN UpperCase : UpperCase[k] = c]]

LowerIdentity(str) == str

(* str.lower() *)
Lower(str) ==
    [i \in DOMAIN str |->
        IF str[i] \in DOMAIN ToLower THEN ToLower[str[i]] ELSE str[i]]

RECURSIVE StripLeft(_)
StripLeft(str) ==
    IF str # <<>> /\ Head(str) \in Whitespace THEN StripLeft(Tail(str))
    ELSE str

RECURSIVE StripRight(_)
StripRight(str) ==
    IF str # <<>> /\ str[Len(str)] \in Whitespace
    THEN StripRight(SubSeq(str, 1, Len(str) - 1))
    ELSE str

(* str.strip() *)
Strip(str) == StripRight(StripLeft(str))

(* Python's  sub in str *)
Contains(sub, str) ==
    \E k \in 0..(Len(str) - Len(sub)) : SubSeq(str, k + 1, k + Len(sub)) = sub

(* Python's truth value of an optional string, and of an optional number *)
TruthyStr(o) == ~IsNone(o) /\ Value(o) # <<>>
TruthyNum(o) == ~IsNone(o) /\ Value(o) # 0

(* datetime.month of a day number: day 0 is 1 January 2026, and the years
   2025 to 2027 have 365 days *)
DaysBefore == <<0, 31, 59, 90, 120, 151, 181, 212, 243, 273, 304, 334>>

MonthOf(date) ==
    LET day == date % 365
    IN CHOOSE month \in 1..12 :
          /\ DaysBefore[month] <= day
          /\ month < 12 => day < DaysBefore[month + 1]

----------------------------------------------------------------------------
(* Bounds of the price-intelligence model *)

MaxCalls == 3

Routes == {"Berlin-Paris", "Berlin-Rome"}
Prices == {95, 100}
Targets == {95, 105}
\* the instants at which the engine is called: the clock moves from one to
\* any later one (by 1, 365 or 366 days)
Instants == {0, 1, 366}
\* caller-supplied timestamps, relative to the clock: a day back,
\* slightly ahead of the local clock, and older than the retention window
DateOffsets == {-1, 2, -400}

\* the histories on which the trend, the prediction and the buying advice
\* are queried: every series of up to MaxHistory prices of TrendPrices, and
\* every strictly rising series of six prices of RisingPrices
MaxHistory == 6
TrendPrices == {60, 95, 100, 105, 140}
RisingPrices == {95, 100, 101, 102, 103, 104, 105, 140}
BuyTargets == {None, Some(0), Some(100)}

\* the histories on which the seasons are analysed: for each day of
\* SeasonDays (in January, February, June and December 2025) a number of
\* points, all at the price SeasonPriceOn gives; SeasonCounts lists the
\* numbers of points on the four days
SeasonRoute == "Berlin-Paris"
SeasonDays == <<-340, -320, -200, -20>>
SeasonPriceOn == <<100, 100, 60, 140>>
SeasonCounts ==
    {<<0, 0, 0, 0>>, <<5, 2, 2, 0>>, <<5, 3, 2, 0>>, <<5, 0, 0, 5>>,
     <<2, 3, 3, 2>>, <<2, 2, 5, 1>>, <<1, 2, 5, 1>>, <<3, 3, 3, 3>>}
\* the prices and the caller-supplied timestamps, relative to the clock,
\* recorded afterwards
LaterPrices == {95}
LaterDateOffsets == {-400}
\* the travel dates asked about: the 15th of January, February and June
\* 2027
TravelDates == {365 + DaysBefore[month] + 14 : month \in {1, 2, 6}}
\* the days whose season is asked for: the years 2025 to 2027
CalendarDays == (-365)..729

(* timedelta(days=365) of add_price *)
RetentionDays == 365

----------------------------------------------------------------------------
(* PriceIntelligence *)

History(route) ==
    IF route \in DOMAIN price_history THEN price_history[route] ELSE <<>>

AlertsOf(route) ==
    IF route \in DOMAIN alerts THEN alerts[route] ELSE <<>>

(* PricePoint(date=date or datetime.now(), price=price); defaulted records
   whether the timestamp came from the clock *)
NewPoint(price, date) ==
    [date |-> IF IsNone(date) THEN now ELSE Value(date),
     price |-> price,
     defaulted |-> IsNone(date)]

PruneGE(h, cutoff) == SelectSeq(h, LAMBDA p : p.date >= cutoff)

PruneNothing(h, cutoff) == h

(* [p for p in self.price_history[route] if p.date > cutoff] *)
Prune(h, cutoff) == SelectSeq(h, LAMBDA p : p.date > cutoff)

CheckAlertsNoGuard(a, route, current_price) ==
    IF route \notin DOMAIN a THEN a
    ELSE [a EXCEPT ![route] =
            [i \in DOMAIN a[route] |->
                IF current_price <= a[route][i].target_price
                THEN [a[route][i] EXCEPT !.triggered = TRUE,
                                         !.fired = @ + 1,
                                         !.reached = current_price]
                ELSE a[route][i]]]

CheckAlertsStrict(a, route, current_price) ==
    IF route \notin DOMAIN a THEN a
    ELSE [a EXCEPT ![route] =
            [i \in DOMAIN a[route] |->
                IF ~a[route][i].triggered
                   /\ current_price < a[route][i].target_price
                THEN [a[route][i] EXCEPT !.triggered = TRUE,
                                         !.fired = @ + 1,
                                         !.reached = current_price]
                ELSE a[route][i]]]

CheckAlertsNever(a, route, current_price) == a

(* _check_alerts: fired counts the executions of alert.triggered = True,
   reached is the price of the "Alert triggered: ... reached" log line *)
CheckAlerts(a, route, current_price) ==
    IF route \notin DOMAIN a THEN a
    ELSE [a EXCEPT ![route] =
            [i \in DOMAIN a[route] |->
                IF ~a[route][i].triggered
                   /\ current_price <= a[route][i].target_price
                THEN [a[route][i] EXCEPT !.triggered = TRUE,
                                         !.fired = @ + 1,
                                         !.reached = current_price]
                ELSE a[route][i]]]

AppendPointFront(h, point) == <<point>> \o h

(* self.price_history[route].append(point) *)
AppendPoint(h, point) == Append(h, point)

(* the number of alerts created so far, over all routes *)
RECURSIVE CountAlerts(_)
CountAlerts(rs) ==
    IF rs = {} THEN 0
    ELSE LET r == CHOOSE x \in rs : TRUE
         IN Len(alerts[r]) + CountAlerts(rs \ {r})

AlertCount == CountAlerts(DOMAIN alerts)

(* add_price(route, price, date=None) *)
AddPrice(route, price, date) ==
    /\ adds + AlertCount < MaxCalls
    /\ adds' = adds + 1
    /\ LET point == NewPoint(price, date)
           cutoff == now - RetentionDays
       IN /\ price_history' =
                [r \in DOMAIN price_history \cup {route} |->
                    IF r = route
                    THEN Prune(AppendPoint(History(route), point), cutoff)
                    ELSE price_history[r]]
          /\ alerts' = CheckAlerts(alerts, route, price)
          /\ last' = [op |-> "add_price", route |-> route,
                      price |-> price, date |-> point.date]
    /\ UNCHANGED <<now, seasonal_patterns, answer, mvars, probe, tvars>>

CreateAlertChecked(route, target_price) ==
    /\ adds + AlertCount < MaxCalls
    /\ alerts' =
          [r \in DOMAIN alerts \cup {route} |->
              IF r = route
              THEN Append(AlertsOf(route),
                          [target_price |-> target_price,
                           triggered |-> /\ History(route) # <<>>
                                         /\ History(route)[Len(History(route))].price
                                                <= target_price,
                           fired |-> 0,
                           reached |-> 0])
              ELSE alerts[r]]
    /\ last' = [op |-> "create_alert", route |-> route,
                price |-> target_price, date |-> now]
    /\ UNCHANGED <<now, adds, price_history, seasonal_patterns, answer,
                   mvars, probe, tvars>>

(* create_alert(route, target_price) *)
CreateAlert(route, target_price) ==
    /\ adds + AlertCount < MaxCalls
    /\ alerts' =
          [r \in DOMAIN alerts \cup {route} |->
              IF r = route
              THEN Append(AlertsOf(route),
                          [target_price |-> target_price,
                           triggered |-> FALSE,
                           fired |-> 0,
                           reached |-> 0])
              ELSE alerts[r]]
    /\ last' = [op |-> "create_alert", route |-> route,
                price |-> target_price, date |-> now]
    /\ UNCHANGED <<now, adds, price_history, seasonal_patterns, answer,
                   mvars, probe, tvars>>

(* get_active_alerts(route=None): the alerts returned, each named by its
   route and its place in the route's list *)
GetActiveAlerts(route) ==
    IF ~IsNone(route) /\ Value(route) # ""
    THEN {<<Value(route), i>> :
            i \in {j \in DOMAIN AlertsOf(Value(route)) :
                     ~AlertsOf(Value(route))[j].triggered}}
    ELSE UNION {{<<r, i>> : i \in {j \in DOMAIN alerts[r] :
                                      ~alerts[r][j].triggered}} :
                r \in DOMAIN alerts}

RECURSIVE SumPrices(_)
SumPrices(prices) ==
    IF prices = <<>> THEN 0 ELSE Head(prices) + SumPrices(Tail(prices))

MinOf(prices) ==
    CHOOSE x \in {prices[i] : i \in DOMAIN prices} :
        \A i \in DOMAIN prices : x <= prices[i]

MaxOf(prices) ==
    CHOOSE x \in {prices[i] : i \in DOMAIN prices} :
        \A i \in DOMAIN prices : x >= prices[i]

(* no query made yet *)
NoAnswer == [op |-> "none"]

(* [p.price for p in history] *)
PricesOf(history) == [i \in DOMAIN history |-> history[i].price]

(* history[-3:] *)
RecentWindow(history) ==
    SubSeq(history, IF Len(history) > 3 THEN Len(history) - 2 ELSE 1,
           Len(history))

OlderWindowOnlySix(history) ==
    IF Len(history) >= 6
    THEN SubSeq(history, Len(history) - 5, Len(history) - 3)
    ELSE <<>>

(* history[-6:-3] if len(history) >= 6 else history[:-3] *)
OlderWindow(history) ==
    IF Len(history) >= 6
    THEN SubSeq(history, Len(history) - 5, Len(history) - 3)
    ELSE SubSeq(history, 1, Len(history) - 3)

ClassifyInclusive(diff_percent) ==
    IF RLe(Whole(5), diff_percent) THEN "rising"
    ELSE IF RLe(diff_percent, Whole(-5)) THEN "falling"
    ELSE "stable"

ClassifyWide(diff_percent) ==
    IF RLt(Whole(10), diff_percent) THEN "rising"
    ELSE IF RLt(diff_percent, Whole(-10)) THEN "falling"
    ELSE "stable"

(* if diff_percent > 5 ... elif diff_percent < -5 ... return "stable" *)
Classify(diff_percent) ==
    IF RLt(Whole(5), diff_percent) THEN "rising"
    ELSE IF RLt(diff_percent, Whole(-5)) THEN "falling"
    ELSE "stable"

(* get_trend on the history of a known route; raised is the
   ZeroDivisionError of an older average of 0 *)
TrendOf(history) ==
    IF Len(history) < 2
    THEN [raised |-> FALSE, value |-> "unknown"]
    ELSE LET recent == RecentWindow(history)
             older == OlderWindow(history)
         IN IF older = <<>>
            THEN [raised |-> FALSE, value |-> "unknown"]
            ELSE LET recent_avg == Rat(SumPrices(PricesOf(recent)),
                                       Len(recent))
                     older_avg == Rat(SumPrices(PricesOf(older)),
                                      Len(older))
                 IN IF older_avg = Whole(0)
                    THEN [raised |-> TRUE, value |-> "unknown"]
                    ELSE [raised |-> FALSE,
                          value |-> Classify(
                              RMul(RDiv(RSub(recent_avg, older_avg),
                                        older_avg),
                                   Whole(100)))]

(* get_trend(route) *)
GetTrend(route) ==
    IF route \notin DOMAIN price_history
    THEN [raised |-> FALSE, value |-> "unknown"]
    ELSE TrendOf(price_history[route])

(* get_current_price(route) *)
GetCurrentPrice(route) ==
    IF route \notin DOMAIN price_history \/ price_history[route] = <<>>
    THEN None
    ELSE Some(price_history[route][Len(price_history[route])].price)

(* sorted(prices): the k-th element is the price with fewer than k prices
   below it and at least k prices not above it *)
Sorted(prices) ==
    [k \in DOMAIN prices |->
        CHOOSE v \in {prices[i] : i \in DOMAIN prices} :
            /\ Cardinality({i \in DOMAIN prices : prices[i] < v}) < k
            /\ k <= Cardinality({i \in DOMAIN prices : prices[i] <= v})]

(* statistics.median(prices): the middle value of the sorted prices, the
   mean of the two middle values when their number is even *)
Median(prices) ==
    LET data == Sorted(prices)
        n == Len(data)
    IN IF n % 2 = 1 THEN Whole(data[n \div 2 + 1])
       ELSE Rat(data[n \div 2] + data[n \div 2 + 1], 2)

(* the dictionary get_route_statistics builds from the history of a known
   route; the average is kept as the pair sum, count; volatility is left
   out; trend carries the ZeroDivisionError of get_trend *)
StatisticsOf(history) ==
    LET prices == PricesOf(history)
    IN [empty |-> FALSE,
        current_price |-> IF prices # <<>> THEN Some(prices[Len(prices)])
                          ELSE None,
        price_sum |-> IF prices # <<>> THEN Some(SumPrices(prices)) ELSE None,
        min_price |-> IF prices # <<>> THEN Some(MinOf(prices)) ELSE None,
        max_price |-> IF prices # <<>> THEN Some(MaxOf(prices)) ELSE None,
        median_price |-> IF prices # <<>> THEN Some(Median(prices)) ELSE None,
        sample_count |-> Len(prices),
        trend |-> TrendOf(history),
        last_updated |-> IF prices # <<>> THEN Some(history[Len(prices)].date)
                         ELSE None]

GetRouteStatisticsFirstPoint(route) ==
    IF route \notin DOMAIN price_history THEN [empty |-> TRUE]
    ELSE [StatisticsOf(price_history[route]) EXCEPT
             !.current_price = IF price_history[route] # <<>>
                               THEN Some(price_history[route][1].price)
                               ELSE None]

(* get_route_statistics(route): {} for an unknown route *)
GetRouteStatistics(route) ==
    IF route \notin DOMAIN price_history THEN [empty |-> TRUE]
    ELSE StatisticsOf(price_history[route])

(* a call of get_route_statistics(route) *)
AskStatistics(route) ==
    /\ answer' = [op |-> "get_route_statistics", route |-> route,
                  known |-> route \in DOMAIN price_history,
                  history |-> History(route),
                  result |-> GetRouteStatistics(route)]
    /\ UNCHANGED <<now, adds, price_history, alerts, last, seasonal_patterns,
                   mvars, probe, tvars>>

(* self.min_history_for_prediction = 5 *)
MinHistoryForPrediction == 5

StablePolicyNeutral(current_price, avg_price, min_price) ==
    [predicted_low |-> Whole(min_price),
     recommendation |-> "neutral",
     confidence |-> Rat(5, 10)]

StablePolicyAverageLow(current_price, avg_price, min_price) ==
    IF RLt(Whole(current_price), RMul(avg_price, Rat(9, 10)))
    THEN [predicted_low |-> Whole(current_price),
          recommendation |-> "buy_now",
          confidence |-> Rat(65, 100)]
    ELSE IF RLt(RMul(avg_price, Rat(11, 10)), Whole(current_price))
    THEN [predicted_low |-> RMul(avg_price, Rat(9, 10)),
          recommendation |-> "wait",
          confidence |-> Rat(65, 100)]
    ELSE [predicted_low |-> avg_price,
          recommendation |-> "neutral",
          confidence |-> Rat(5, 10)]

(* the branch of predict_price for a trend that is neither falling nor
   rising *)
StablePolicy(current_price, avg_price, min_price) ==
    IF RLt(Whole(current_price), RMul(avg_price, Rat(9, 10)))
    THEN [predicted_low |-> Whole(current_price),
          recommendation |-> "buy_now",
          confidence |-> Rat(65, 100)]
    ELSE IF RLt(RMul(avg_price, Rat(11, 10)), Whole(current_price))
    THEN [predicted_low |-> RMul(avg_price, Rat(9, 10)),
          recommendation |-> "wait",
          confidence |-> Rat(65, 100)]
    ELSE [predicted_low |-> Whole(min_price),
          recommendation |-> "neutral",
          confidence |-> Rat(5, 10)]

(* predict_price(route): value is None or the PricePrediction *)
PredictPrice(route) ==
    IF route \notin DOMAIN price_history
    THEN [raised |-> FALSE, value |-> None]
    ELSE LET history == price_history[route]
         IN IF Len(history) < MinHistoryForPrediction
            THEN [raised |-> FALSE, value |-> None]
            ELSE LET prices == PricesOf(history)
                     current_price == prices[Len(prices)]
                     avg_price == Rat(SumPrices(prices), Len(prices))
                     min_price == MinOf(prices)
                     max_price == MaxOf(prices)
                     trend == GetTrend(route)
                     policy ==
                        IF trend.value = "falling"
                        THEN [predicted_low |->
                                  RMul(Whole(current_price), Rat(85, 100)),
                              recommendation |-> "wait",
                              confidence |-> Rat(75, 100)]
                        ELSE IF trend.value = "rising"
                        THEN [predicted_low |-> Whole(current_price),
                              recommendation |-> "buy_now",
                              confidence |-> Rat(75, 100)]
                        ELSE StablePolicy(current_price, avg_price, min_price)
                 IN IF trend.raised
                    THEN [raised |-> TRUE, value |-> None]
                    ELSE [raised |-> FALSE,
                          value |-> Some(
                              [current_price |-> current_price,
                               predicted_low |-> policy.predicted_low,
                               predicted_high |-> max_price,
                               recommendation |-> policy.recommendation,
                               confidence |-> policy.confidence])]

ShouldBuyRecommendationFirst(route, target_price) ==
    LET prediction == PredictPrice(route)
    IN IF prediction.raised
       THEN [raised |-> TRUE, should_buy |-> None, reason |-> "none"]
       ELSE IF IsNone(prediction.value)
       THEN [raised |-> FALSE, should_buy |-> None, reason |-> "no data"]
       ELSE IF Value(prediction.value).recommendation = "buy_now"
       THEN [raised |-> FALSE, should_buy |-> Some(TRUE),
             reason |-> "prediction"]
       ELSE IF Value(prediction.value).recommendation = "wait"
       THEN [raised |-> FALSE, should_buy |-> Some(FALSE),
             reason |-> "prediction"]
       ELSE IF TruthyNum(target_price)
               /\ Value(prediction.value).current_price <= Value(target_price)
       THEN [raised |-> FALSE, should_buy |-> Some(TRUE), reason |-> "target"]
       ELSE [raised |-> FALSE, should_buy |-> Some(FALSE),
             reason |-> "prediction"]

(* should_buy(route, target_price=None): should_buy is None, True or False;
   reason tells which return statement answered *)
ShouldBuy(route, target_price) ==
    LET prediction == PredictPrice(route)
    IN IF prediction.raised
       THEN [raised |-> TRUE, should_buy |-> None, reason |-> "none"]
       ELSE IF IsNone(prediction.value)
       THEN [raised |-> FALSE, should_buy |-> None, reason |-> "no data"]
       ELSE IF TruthyNum(target_price)
               /\ Value(prediction.value).current_price <= Value(target_price)
       THEN [raised |-> FALSE, should_buy |-> Some(TRUE), reason |-> "target"]
       ELSE IF Value(prediction.value).recommendation = "buy_now"
       THEN [raised |-> FALSE, should_buy |-> Some(TRUE),
             reason |-> "prediction"]
       ELSE [raised |-> FALSE, should_buy |-> Some(FALSE),
             reason |-> "prediction"]

(* a call of get_trend(route) *)
AskTrend(route) ==
    /\ answer = NoAnswer
    /\ answer' = [op |-> "get_trend", route |-> route,
                  history |-> History(route),
                  result |-> GetTrend(route)]
    /\ UNCHANGED <<now, adds, price_history, alerts, last, seasonal_patterns,
                   mvars, probe, tvars>>

(* a call of predict_price(route) *)
AskPrediction(route) ==
    /\ answer = NoAnswer
    /\ answer' = [op |-> "predict_price", route |-> route,
                  history |-> History(route),
                  result |-> PredictPrice(route)]
    /\ UNCHANGED <<now, adds, price_history, alerts, last, seasonal_patterns,
                   mvars, probe, tvars>>

(* a call of should_buy(route, target_price) *)
AskShouldBuy(route, target_price) ==
    /\ answer = NoAnswer
    /\ answer' = [op |-> "should_buy", route |-> route,
                  history |-> History(route),
                  target_price |-> target_price,
                  prediction |-> PredictPrice(route),
                  result |-> ShouldBuy(route, target_price)]
    /\ UNCHANGED <<now, adds, price_history, alerts, last, seasonal_patterns,
                   mvars, probe, tvars>>

Seasons == {"winter", "spring", "summer", "autumn", "holiday", "off_peak"}

GetSeasonWinterFirst(month) ==
    IF month \in {12, 1, 2} THEN "winter"
    ELSE IF month \in {7, 8} THEN "summer"
    ELSE IF month \in {3, 4, 5} THEN "spring"
    ELSE IF month \in {9, 10, 11} THEN "autumn"
    ELSE "off_peak"

(* _get_season(date), on date.month *)
GetSeason(month) ==
    IF month \in {12, 1} THEN "holiday"
    ELSE IF month \in {7, 8} THEN "summer"
    ELSE IF month \in {3, 4, 5} THEN "spring"
    ELSE IF month \in {9, 10, 11} THEN "autumn"
    ELSE IF month \in {12} THEN "winter"
    ELSE IF month \in {1, 2} THEN "winter"
    ELSE "off_peak"

(* a call of _get_season(date) on the date drawn *)
AskSeason ==
    /\ answer.op = "date"
    /\ answer' = [op |-> "_get_season", date |-> answer.date,
                  month |-> MonthOf(answer.date),
                  result |-> GetSeason(MonthOf(answer.date))]
    /\ UNCHANGED <<now, adds, price_history, alerts, last, seasonal_patterns,
                   mvars, probe, tvars>>

(* if len(history) < 10 *)
MinHistoryForSeasons == 10

(* if len(prices) >= 3 *)
MinSeasonSamples == 3

(* seasonal_data[season]: the prices of the points of a season, in order *)
SeasonPrices(history, season) ==
    PricesOf(SelectSeq(history,
                       LAMBDA point : GetSeason(MonthOf(point.date)) = season))

SeasonalPatternsOfTwo(history) ==
    LET kept == {season \in Seasons :
                    Len(SeasonPrices(history, season)) >= 2}
    IN [season \in kept |->
          LET prices == SeasonPrices(history, season)
          IN [average_price |-> Rat(SumPrices(prices), Len(prices)),
              min_price |-> MinOf(prices),
              max_price |-> MaxOf(prices),
              sample_count |-> Len(prices)]]

(* the patterns dictionary built by analyze_seasonal_patterns from a
   history of at least 10 points; price_volatility is left out *)
SeasonalPatternsOf(history) ==
    LET kept == {season \in Seasons :
                    Len(SeasonPrices(history, season)) >= MinSeasonSamples}
    IN [season \in kept |->
          LET prices == SeasonPrices(history, season)
          IN [average_price |-> Rat(SumPrices(prices), Len(prices)),
              min_price |-> MinOf(prices),
              max_price |-> MaxOf(prices),
              sample_count |-> Len(prices)]]

(* analyze_seasonal_patterns(route): what it returns, and whether it
   stores it in self.seasonal_patterns[route] *)
Analyze(route) ==
    IF route \notin DOMAIN price_history
    THEN [stored |-> FALSE, patterns |-> <<>>]
    ELSE IF Len(price_history[route]) < MinHistoryForSeasons
    THEN [stored |-> FALSE, patterns |-> <<>>]
    ELSE [stored |-> TRUE,
          patterns |-> SeasonalPatternsOf(price_history[route])]

(* self.seasonal_patterns after a call of analyze_seasonal_patterns *)
Stored(route) ==
    LET analysis == Analyze(route)
    IN IF analysis.stored
       THEN [r \in DOMAIN seasonal_patterns \cup {route} |->
                IF r = route THEN analysis.patterns
                ELSE seasonal_patterns[r]]
       ELSE seasonal_patterns

(* a call of analyze_seasonal_patterns(route) *)
AnalyzeSeasonalPatterns(route) ==
    /\ seasonal_patterns' = Stored(route)
    /\ answer' = [op |-> "analyze_seasonal_patterns", route |-> route,
                  history |-> History(route),
                  result |-> Analyze(route).patterns]
    /\ UNCHANGED <<now, adds, price_history, alerts, last, mvars, probe, tvars>>

(* the cache that get_seasonal_recommendation(route, ...) leaves *)
CacheAfterLookup(route) ==
    IF route \notin DOMAIN seasonal_patterns THEN Stored(route)
    ELSE seasonal_patterns

(* get_seasonal_recommendation(route, travel_date), given the cache after
   its lookup: the patterns it used, the season of travel_date and the
   dictionary returned; raised is the TypeError of comparing a current
   price of None *)
Recommend(route, travel_date, cache) ==
    LET patterns == IF route \in DOMAIN cache THEN cache[route] ELSE <<>>
        target_season == GetSeason(MonthOf(travel_date))
        current_price == GetCurrentPrice(route)
        used == [patterns |-> patterns, target_season |-> target_season]
    IN IF target_season \notin DOMAIN patterns
       THEN used @@
            [raised |-> FALSE, recommendation |-> "neutral",
             reason |-> "Not enough seasonal data", seasonal_avg |-> None]
       ELSE LET average == patterns[target_season].average_price
            IN IF IsNone(current_price)
               THEN used @@ [raised |-> TRUE, recommendation |-> "none",
                             reason |-> "none", seasonal_avg |-> None]
               ELSE IF RLt(Whole(Value(current_price)),
                           RMul(average, Rat(8, 10)))
               THEN used @@ [raised |-> FALSE, recommendation |-> "buy_now",
                             reason |-> "below", seasonal_avg |-> Some(average)]
               ELSE IF RLt(RMul(average, Rat(12, 10)),
                           Whole(Value(current_price)))
               THEN used @@ [raised |-> FALSE, recommendation |-> "wait",
                             reason |-> "above", seasonal_avg |-> Some(average)]
               ELSE used @@ [raised |-> FALSE, recommendation |-> "neutral",
                             reason |-> "near", seasonal_avg |-> Some(average)]

(* a call of get_seasonal_recommendation(route, travel_date) *)
GetSeasonalRecommendation(route, travel_date) ==
    /\ seasonal_patterns' = CacheAfterLookup(route)
    /\ answer' = [op |-> "get_seasonal_recommendation", route |-> route,
                  history |-> History(route),
                  travel_date |-> travel_date,
                  result |-> Recommend(route, travel_date,
                                       seasonal_patterns')]
    /\ UNCHANGED <<now, adds, price_history, alerts, last, mvars, probe, tvars>>

(* the passage of time *)
Tick(t) ==
    /\ t > now
    /\ now' = t
    /\ last' = [op |-> "tick", route |-> "", price |-> 0, date |-> t]
    /\ UNCHANGED <<adds, price_history, alerts, seasonal_patterns, answer,
                   mvars, probe, tvars>>

(* PriceIntelligence.__init__ *)
PriceInit ==
    /\ now = 0
    /\ adds = 0
    /\ price_history = <<>>
    /\ alerts = <<>>
    /\ last = [op |-> "init", route |-> "", price |-> 0, date |-> 0]
    /\ seasonal_patterns = <<>>
    /\ answer = NoAnswer

----------------------------------------------------------------------------
(* PriceIntelligence called by concurrent callers.  The class takes no
   lock, so the interpreter may switch from one caller to another between
   any two of the steps below.  A list is a mutable object: a caller that
   has loaded self.price_history[route] keeps that object, also after
   another caller has assigned a new list to the key *)

Threads == {1, 2}
ThreadRoute == "Berlin-Paris"

\* the calls made at the same time on ThreadRoute: two add_price calls, or
\* an add_price and a create_alert call
ThreadCalls ==
    {<<[op |-> "add_price", price |-> 95], [op |-> "add_price", price |-> 100]>>,
     <<[op |-> "add_price", price |-> 95], [op |-> "create_alert", price |-> 105]>>}

\* what the engine holds for ThreadRoute when the calls are made: nothing
\* or one point recorded today, and no alert or one pending alert
ThreadHistories == {<<>>, [r \in {ThreadRoute} |-> <<NewPoint(120, None)>>]}
ThreadAlerts ==
    {<<>>,
     [r \in {ThreadRoute} |->
        <<[target_price |-> 97, triggered |-> FALSE, fired |-> 0,
           reached |-> 0]>>]}

Goto(t, pc) == [threads EXCEPT ![t].pc = pc]

(* add_price: if route not in self.price_history *)
TestRoute(t) ==
    /\ threads[t].pc = "test_route"
    /\ threads' = Goto(t, IF ThreadRoute \notin DOMAIN price_history
                          THEN "new_list" ELSE "load_list")
    /\ UNCHANGED <<pvars, mvars, probe, list_id>>

(* add_price: self.price_history[route] = [] *)
NewList(t) ==
    /\ threads[t].pc = "new_list"
    /\ price_history' = [r \in DOMAIN price_history \cup {ThreadRoute} |->
                            IF r = ThreadRoute THEN <<>>
                            ELSE price_history[r]]
    /\ list_id' = [r \in DOMAIN list_id \cup {ThreadRoute} |->
                      IF r # ThreadRoute THEN list_id[r]
                      ELSE IF r \in DOMAIN list_id THEN list_id[r] + 1
                      ELSE 1]
    /\ threads' = Goto(t, "load_list")
    /\ UNCHANGED <<now, adds, alerts, last, seasonal_patterns, answer,
                   mvars, probe>>

(* add_price: the evaluation of self.price_history[route] in
   self.price_history[route].append(point) *)
LoadList(t) ==
    /\ threads[t].pc = "load_list"
    /\ threads' = [threads EXCEPT ![t].pc = "append",
                                  ![t].list = list_id[ThreadRoute]]
    /\ UNCHANGED <<pvars, mvars, probe, list_id>>

(* add_price: the append to the list loaded, which is lost to the
   dictionary when the key holds another list by now *)
AppendToList(t) ==
    /\ threads[t].pc = "append"
    /\ price_history' =
          IF threads[t].list = list_id[ThreadRoute]
          THEN [price_history EXCEPT
                   ![ThreadRoute] =
                       AppendPoint(@, NewPoint(threads[t].price, None))]
          ELSE price_history
    /\ threads' = Goto(t, "filter")
    /\ UNCHANGED <<now, adds, alerts, last, seasonal_patterns, answer,
                   mvars, probe, list_id>>

(* add_price: [p for p in self.price_history[route] if p.date > cutoff] *)
FilterList(t) ==
    /\ threads[t].pc = "filter"
    /\ threads' = [threads EXCEPT
                      ![t].pc = "store",
                      ![t].kept = Prune(price_history[ThreadRoute],
                                        now - RetentionDays)]
    /\ UNCHANGED <<pvars, mvars, probe, list_id>>

(* add_price: self.price_history[route] = the list built *)
StoreList(t) ==
    /\ threads[t].pc = "store"
    /\ price_history' = [price_history EXCEPT
                            ![ThreadRoute] = threads[t].kept]
    /\ list_id' = [list_id EXCEPT ![ThreadRoute] = @ + 1]
    /\ threads' = Goto(t, "test_alerts")
    /\ UNCHANGED <<now, adds, alerts, last, seasonal_patterns, answer,
                   mvars, probe>>

(* _check_alerts: if route not in self.alerts: return *)
TestAlerts(t) ==
    /\ threads[t].pc = "test_alerts"
    /\ threads' = [threads EXCEPT
                      ![t].pc = IF ThreadRoute \notin DOMAIN alerts
                                THEN "done" ELSE "next_alert",
                      ![t].i = 1]
    /\ UNCHANGED <<pvars, mvars, probe, list_id>>

(* _check_alerts: for alert in self.alerts[route], and the test
   not alert.triggered and current_price <= alert.target_price *)
NextAlert(t) ==
    /\ threads[t].pc = "next_alert"
    /\ threads' =
          IF threads[t].i > Len(alerts[ThreadRoute]) THEN Goto(t, "done")
          ELSE IF /\ ~alerts[ThreadRoute][threads[t].i].triggered
                  /\ threads[t].price
                       <= alerts[ThreadRoute][threads[t].i].target_price
          THEN Goto(t, "trigger")
          ELSE [threads EXCEPT ![t].i = @ + 1]
    /\ UNCHANGED <<pvars, mvars, probe, list_id>>

(* _check_alerts: alert.triggered = True, and the log line *)
Trigger(t) ==
    /\ threads[t].pc = "trigger"
    /\ alerts' = [alerts EXCEPT
                     ![ThreadRoute][threads[t].i] =
                         [@ EXCEPT !.triggered = TRUE,
                                   !.fired = @ + 1,
                                   !.reached = threads[t].price]]
    /\ threads' = [threads EXCEPT ![t].pc = "next_alert", ![t].i = @ + 1]
    /\ UNCHANGED <<now, adds, price_history, last, seasonal_patterns,
                   answer, mvars, probe, list_id>>

(* create_alert: if route not in self.alerts *)
TestAlertsKey(t) ==
    /\ threads[t].pc = "test_alerts_key"
    /\ threads' = Goto(t, IF ThreadRoute \notin DOMAIN alerts
                          THEN "new_alerts" ELSE "append_alert")
    /\ UNCHANGED <<pvars, mvars, probe, list_id>>

(* create_alert: self.alerts[route] = [] *)
NewAlerts(t) ==
    /\ threads[t].pc = "new_alerts"
    /\ alerts' = [r \in DOMAIN alerts \cup {ThreadRoute} |->
                     IF r = ThreadRoute THEN <<>> ELSE alerts[r]]
    /\ threads' = Goto(t, "append_alert")
    /\ UNCHANGED <<now, adds, price_history, last, seasonal_patterns,
                   answer, mvars, probe, list_id>>

(* create_alert: self.alerts[route].append(alert); no other caller assigns
   to self.alerts[route] *)
AppendAlert(t) ==
    /\ threads[t].pc = "append_alert"
    /\ alerts' = [alerts EXCEPT
                     ![ThreadRoute] =
                         Append(@, [target_price |-> threads[t].price,
                                    triggered |-> FALSE,
                                    fired |-> 0,
                                    reached |-> 0])]
    /\ threads' = Goto(t, "done")
    /\ UNCHANGED <<now, adds, price_history, last, seasonal_patterns,
                   answer, mvars, probe, list_id>>

----------------------------------------------------------------------------
(* Bounds and inputs of the matcher model *)

MaxSubs == 2

NoCall == [made |-> FALSE, deal |-> <<>>, table_size |-> 0, raised |-> FALSE,
           evaluated |-> <<>>, matches |-> <<>>]

NoProbe == [done |-> FALSE, deal |-> <<>>, subscription |-> <<>>,
            result |-> <<>>]

Paris == <<"P", "a", "r", "i", "s">>

Sub(destination, max_price, start_date, is_active) ==
    [destination |-> destination, origin |-> None, max_price |-> max_price,
     start_date |-> start_date, end_date |-> None, is_active |-> is_active]

Deal(arrival_city, departure_date, price) ==
    [route |-> Some(<<"N", "Y", "C", "-", "P", "a", "r", "i", "s">>), arrival_city |-> arrival_city,
     departure_city |-> Some(<<"N", "e", "w", " ", "Y", "o", "r", "k">>), departure_date |-> departure_date,
     price |-> price]

\* the deals matched against the table
Deals ==
    {Deal(Some(Paris), Some(<<"A", "p", "r", " ", "1", "5">>), 449),
      Deal(Some(<<"R", "o", "m", "e">>), Some(<<"A", "p", "r", " ", "1", "5">>), 130),
      Deal(None, None, 100)}

\* the rows of the subscriptions table
Subscriptions ==
    {Sub(None, None, None, TRUE),
      Sub(None, None, None, FALSE),
      Sub(None, Some(100), None, TRUE),
      Sub(Some(<<"p", "a", "r", "i", "s">>), Some(500), None, TRUE),
      Sub(Some(Paris), None, Some(<<"A", "p", "r", "i", "l", " ", "2", "0", "2", "6">>), TRUE)}

\* what llm_client.generate returns: None on any failure, the empty
\* string, or a text
Responses == {None, Some(<<>>), Some(<<" ", "B", "o", "o", "k", " ", "i", "t", "!", " ">>)}

\* the deals and subscriptions scored one pair at a time
ProbeDeals ==
    [route : {Some(<<"N", "Y", "C", "-", "P", "a", "r", "i", "s">>)},
     arrival_city : {None, Some(Paris), Some(<<"P", "A", "R", "I", "S", " ">>), Some(<<"c", "d", "g">>), Some(<<"R", "o", "m", "e">>)},
     departure_city : {None, Some(<<"N", "e", "w", " ", "Y", "o", "r", "k">>), Some(<<"n", "y", "c">>)},
     departure_date : {None, Some(<<>>), Some(<<"2", "0", "2", "6", "-", "0", "4", "-", "1", "5">>), Some(<<"A", "p", "r", " ", "1", "5">>)},
     price : {50, 100, 115, 119, 120, 125, 449, 500, 501}]

ProbeSubscriptions ==
    [destination : {None, Some(<<>>), Some(Paris), Some(<<"P", "a", "r", "i", "s", " ", "C", "D", "G">>), Some(<<"L", "o", "n", "d", "o", "n">>)},
     origin : {None, Some(<<"N", "Y", "C">>), Some(<<"n", "e", "w", " ", "y", "o", "r", "k">>)},
     max_price : {None, Some(0), Some(100), Some(500), Some(-100)},
     start_date : {None, Some(<<"A", "p", "r", "i", "l", " ", "2", "0", "2", "6">>), Some(<<"M", "a", "y">>)},
     end_date : {None, Some(<<"a", "p", "r">>)},
     is_active : {TRUE}]

----------------------------------------------------------------------------
(* DealMatcher *)

(* the variations table of _match_location *)
Variations ==
    << <<<<"n", "y", "c">>, {<<"n", "e", "w", " ", "y", "o", "r", "k">>, <<"n", "e", "w", " ", "y", "o", "r", "k", " ", "c", "i", "t", "y">>}>>,
       <<<<"l", "a">>, {<<"l", "o", "s", " ", "a", "n", "g", "e", "l", "e", "s">>}>>,
       <<<<"s", "f">>, {<<"s", "a", "n", " ", "f", "r", "a", "n", "c", "i", "s", "c", "o">>}>>,
       <<<<"p", "a", "r", "i", "s">>, {<<"c", "d", "g">>, <<"o", "r", "l", "y">>}>>,
       <<<<"l", "o", "n", "d", "o", "n">>, {<<"l", "h", "r">>, <<"l", "g", "w">>, <<"l", "t", "n">>}>>,
       <<<<"t", "o", "k", "y", "o">>, {<<"n", "r", "t">>, <<"h", "n", "d">>}>> >>

(* the body of _match_location after its guard; lower() on None raises *)
CompareLocations(location1, location2) ==
    IF IsNone(location1) \/ IsNone(location2)
    THEN [raised |-> TRUE, value |-> Whole(0)]
    ELSE LET loc1 == Strip(Lower(Value(location1)))
             loc2 == Strip(Lower(Value(location2)))
         IN [raised |-> FALSE,
             value |->
                IF loc1 = loc2 THEN Whole(1)
                ELSE IF Contains(loc1, loc2) \/ Contains(loc2, loc1)
                THEN Rat(9, 10)
                ELSE IF \E k \in DOMAIN Variations :
                           \/ loc1 = Variations[k][1] /\ loc2 \in Variations[k][2]
                           \/ loc2 = Variations[k][1] /\ loc1 \in Variations[k][2]
                THEN Rat(95, 100)
                ELSE Whole(0)]

MatchLocationNoGuard(location1, location2) ==
    CompareLocations(location1, location2)

(* _match_location *)
MatchLocation(location1, location2) ==
    IF ~TruthyStr(location1) \/ ~TruthyStr(location2)
    THEN [raised |-> FALSE, value |-> Whole(0)]
    ELSE CompareLocations(location1, location2)

Months ==
    {<<"j", "a", "n">>, <<"f", "e", "b">>, <<"m", "a", "r">>, <<"a", "p", "r">>, <<"m", "a", "y">>, <<"j", "u", "n">>,
      <<"j", "u", "l">>, <<"a", "u", "g">>, <<"s", "e", "p">>, <<"o", "c", "t">>, <<"n", "o", "v">>, <<"d", "e", "c">>}

(* any(month in deal_date_lower and month in bound_lower for month in ...) *)
ShareMonth(deal_date_lower, bound_lower) ==
    \E month \in Months :
        Contains(month, deal_date_lower) /\ Contains(month, bound_lower)

MatchDatesStartOnly(deal_date, sub_start, sub_end) ==
    IF ~TruthyStr(deal_date) THEN [raised |-> FALSE, value |-> Rat(5, 10)]
    ELSE IF ~TruthyStr(sub_start) /\ ~TruthyStr(sub_end)
    THEN [raised |-> FALSE, value |-> Rat(5, 10)]
    ELSE [raised |-> FALSE,
          value |->
             IF TruthyStr(sub_start)
                /\ ShareMonth(Lower(Value(deal_date)),
                              Lower(Value(sub_start)))
             THEN Whole(1)
             ELSE Rat(3, 10)]

(* _match_dates *)
MatchDates(deal_date, sub_start, sub_end) ==
    IF ~TruthyStr(deal_date) THEN [raised |-> FALSE, value |-> Rat(5, 10)]
    ELSE IF ~TruthyStr(sub_start) /\ ~TruthyStr(sub_end)
    THEN [raised |-> FALSE, value |-> Rat(5, 10)]
    ELSE LET deal_date_lower == Lower(Value(deal_date))
         IN [raised |-> FALSE,
             value |->
                IF TruthyStr(sub_start)
                   /\ ShareMonth(deal_date_lower, Lower(Value(sub_start)))
                THEN Whole(1)
                ELSE IF TruthyStr(sub_end)
                        /\ ShareMonth(deal_date_lower, Lower(Value(sub_end)))
                THEN Whole(1)
                ELSE Rat(3, 10)]

DestinationPartWeightThirty(deal, subscription) ==
    IF TruthyStr(subscription.destination)
    THEN LET dest_score == MatchLocation(deal.arrival_city,
                                         subscription.destination)
         IN [raised |-> dest_score.raised,
             value |-> RMul(dest_score.value, Whole(30))]
    ELSE [raised |-> FALSE, value |-> Whole(20)]

(* 1. Destination matching (40 points) *)
DestinationPart(deal, subscription) ==
    IF TruthyStr(subscription.destination)
    THEN LET dest_score == MatchLocation(deal.arrival_city,
                                         subscription.destination)
         IN [raised |-> dest_score.raised,
             value |-> RMul(dest_score.value, Whole(40))]
    ELSE [raised |-> FALSE, value |-> Whole(20)]

PricePartNoTaper(deal, subscription) ==
    IF TruthyNum(subscription.max_price)
    THEN LET max_price == Whole(Value(subscription.max_price))
             price == Whole(deal.price)
         IN IF RLe(price, max_price)
            THEN RMul(RSub(Whole(1), RMul(RDiv(price, max_price), Rat(1, 2))),
                      Whole(30))
            ELSE Whole(0)
    ELSE Whole(15)

PricePartRatioOnly(deal, subscription) ==
    IF TruthyNum(subscription.max_price)
    THEN LET max_price == Whole(Value(subscription.max_price))
             price == Whole(deal.price)
         IN IF RLe(price, max_price)
            THEN LET price_ratio == RDiv(price, max_price)
                 IN RMul(price_ratio, Whole(30))
            ELSE LET overage == RDiv(RSub(price, max_price), max_price)
                 IN IF RLt(overage, Rat(2, 10))
                    THEN RMul(Whole(15),
                              RSub(Whole(1), RDiv(overage, Rat(2, 10))))
                    ELSE Whole(0)
    ELSE Whole(15)

(* 2. Price matching (30 points) *)
PricePart(deal, subscription) ==
    IF TruthyNum(subscription.max_price)
    THEN LET max_price == Whole(Value(subscription.max_price))
             price == Whole(deal.price)
         IN IF RLe(price, max_price)
            THEN LET price_ratio == RDiv(price, max_price)
                 IN RMul(RSub(Whole(1), RMul(price_ratio, Rat(1, 2))), Whole(30))
            ELSE LET overage == RDiv(RSub(price, max_price), max_price)
                 IN IF RLt(overage, Rat(2, 10))
                    THEN RMul(Whole(15),
                              RSub(Whole(1), RDiv(overage, Rat(2, 10))))
                    ELSE Whole(0)
    ELSE Whole(15)

(* 3. Date matching (20 points) *)
DatePart(deal, subscription) ==
    IF TruthyStr(subscription.start_date) \/ TruthyStr(subscription.end_date)
    THEN LET date_score == MatchDates(deal.departure_date,
                                      subscription.start_date,
                                      subscription.end_date)
         IN [raised |-> date_score.raised,
             value |-> RMul(date_score.value, Whole(20))]
    ELSE [raised |-> FALSE, value |-> Whole(10)]

(* 4. Origin matching (10 points) *)
OriginPartFullCredit(deal, subscription) ==
    IF TruthyStr(subscription.origin)
    THEN LET origin_score == MatchLocation(deal.departure_city,
                                           subscription.origin)
         IN [raised |-> origin_score.raised,
             value |-> RMul(origin_score.value, Whole(10))]
    ELSE [raised |-> FALSE, value |-> Whole(10)]

OriginPart(deal, subscription) ==
    IF TruthyStr(subscription.origin)
    THEN LET origin_score == MatchLocation(deal.departure_city,
                                           subscription.origin)
         IN [raised |-> origin_score.raised,
             value |-> RMul(origin_score.value, Whole(10))]
    ELSE [raised |-> FALSE, value |-> Whole(5)]

ScoreUncapped(total) == total

(* return min(score, 100) *)
CapScore(total) == RMin(total, Whole(100))

(* _calculate_match_score: the four parts and the returned score; raised
   when a part raises *)
CalculateMatchScore(deal, subscription) ==
    LET dest == DestinationPart(deal, subscription)
        price == PricePart(deal, subscription)
        date == DatePart(deal, subscription)
        origin == OriginPart(deal, subscription)
        total == RAdd(RAdd(RAdd(dest.value, price), date.value), origin.value)
    IN [raised |-> dest.raised \/ date.raised \/ origin.raised,
        destination |-> dest.value,
        price |-> price,
        dates |-> date.value,
        origin |-> origin.value,
        score |-> CapScore(total)]

(* the fallback sentence names deal.route, deal.price and
   subscription.destination or 'travel deals' *)
FallbackSummary(deal, subscription) ==
    [source |-> "fallback",
     text |-> <<>>,
     route |-> deal.route,
     price |-> deal.price,
     search |-> IF TruthyStr(subscription.destination)
                THEN Value(subscription.destination)
                ELSE <<"t", "r", "a", "v", "e", "l", " ", "d", "e", "a", "l", "s">>]

(* _generate_ai_summary asking the oracle a second time when the first
   answer is empty *)
GenerateAiSummaryRetry(deal, subscription, response) ==
    [summary |-> IF ~TruthyStr(response)
                 THEN FallbackSummary(deal, subscription)
                 ELSE [source |-> "llm",
                       text |-> Strip(Value(response)),
                       route |-> None,
                       price |-> 0,
                       search |-> <<>>],
     generate_calls |-> IF ~TruthyStr(response) THEN 2 ELSE 1,
     response |-> response]

(* _generate_ai_summary, response being what llm_client.generate returned;
   generate_calls counts the calls of llm_client.generate it makes *)
GenerateAiSummary(deal, subscription, response) ==
    [summary |-> IF ~TruthyStr(response)
                 THEN FallbackSummary(deal, subscription)
                 ELSE [source |-> "llm",
                       text |-> Strip(Value(response)),
                       route |-> None,
                       price |-> 0,
                       search |-> <<>>],
     generate_calls |-> 1,
     response |-> response]

AcceptAbove(score) == RLt(Whole(50), score)

(* if score >= 50 *)
Accept(score) == RLe(Whole(50), score)

(* self.db.query(Subscription).filter(Subscription.is_active == True).all() *)
ActiveSubscriptions(table) ==
    SelectSeq([i \in DOMAIN table |-> i], LAMBDA i : table[i].is_active)

(* the loop of match_deal_to_subscriptions over ids, a list of subscription
   ids: the scores computed until one raises, and the DealMatch rows built *)
RECURSIVE MatchLoop(_, _, _, _, _)
MatchLoop(deal, ids, responses, evaluated, matches) ==
    IF ids = <<>>
    THEN [raised |-> FALSE, evaluated |-> evaluated, matches |-> matches]
    ELSE LET id == Head(ids)
             result == CalculateMatchScore(deal, subscriptions[id])
             seen == Append(evaluated, [subscription_id |-> id,
                                        result |-> result])
         IN IF result.raised
            THEN [raised |-> TRUE, evaluated |-> seen, matches |-> <<>>]
            ELSE IF Accept(result.score)
            THEN LET generated == GenerateAiSummary(deal, subscriptions[id],
                                                    responses[id])
                 IN MatchLoop(deal, Tail(ids), responses, seen,
                       Append(matches,
                              [subscription_id |-> id,
                               match_score |-> result.score,
                               ai_summary |-> generated.summary,
                               generate_calls |-> generated.generate_calls,
                               response |-> generated.response,
                               email_sent |-> FALSE]))
            ELSE MatchLoop(deal, Tail(ids), responses, seen, matches)

(* the subscriptions about which match_deal_to_subscriptions(deal) asks the
   oracle *)
Asked(deal) ==
    {id \in DOMAIN subscriptions :
        /\ subscriptions[id].is_active
        /\ LET result == CalculateMatchScore(deal, subscriptions[id])
           IN ~result.raised /\ Accept(result.score)}

(* match_deal_to_subscriptions(deal); responses[id] is what the oracle
   answers when asked about subscription id *)
MatchDealToSubscriptions(deal, responses) ==
    /\ LET out == MatchLoop(deal, ActiveSubscriptions(subscriptions),
                            responses, <<>>, <<>>)
       IN call' = [made |-> TRUE,
                   deal |-> deal,
                   table_size |-> Len(subscriptions),
                   raised |-> out.raised,
                   evaluated |-> out.evaluated,
                   matches |-> out.matches]
    /\ UNCHANGED <<subscriptions, pvars, probe, tvars>>

(* a row added to the subscriptions table by the subscription layer *)
AddSubscription(subscription) ==
    /\ Len(subscriptions) < MaxSubs
    /\ subscriptions' = Append(subscriptions, subscription)
    /\ UNCHANGED <<call, pvars, probe, tvars>>

----------------------------------------------------------------------------
(* The specifications *)

(* no call is being made by a concurrent caller *)
NoThreads ==
    /\ threads = <<>>
    /\ list_id = <<>>

(* DealMatcher.__init__ over an empty subscriptions table *)
MatchInit ==
    /\ subscriptions = <<>>
    /\ call = NoCall

(* The price-intelligence engine under any sequence of calls and any
   passage of time *)
Init ==
    /\ PriceInit
    /\ MatchInit
    /\ NoThreads
    /\ probe = NoProbe

Next ==
    \/ \E route \in Routes, price \in Prices,
          date \in {None} \cup {Some(now + o) : o \in DateOffsets} :
            AddPrice(route, price, date)
    \/ \E route \in Routes, target \in Targets : CreateAlert(route, target)
    \/ \E t \in Instants : Tick(t)

Spec == Init /\ [][Next]_vars

(* The matcher over a subscriptions table that grows *)
MatchNext ==
    \/ \E subscription \in Subscriptions : AddSubscription(subscription)
    \/ \E deal \in Deals :
          \E responses \in [Asked(deal) -> Responses] :
              MatchDealToSubscriptions(deal, responses)

SpecMatch == Init /\ [][MatchNext]_vars

(* _calculate_match_score applied to one deal and one subscription, and
   _match_dates and _match_location applied to their fields *)
ProbeInit ==
    /\ PriceInit
    /\ MatchInit
    /\ NoThreads
    /\ probe \in [done : {FALSE}, deal : ProbeDeals,
                   subscription : ProbeSubscriptions, result : {<<>>}]

Score ==
    /\ ~probe.done
    /\ probe' = [probe EXCEPT
                    !.done = TRUE,
                    !.result = CalculateMatchScore(probe.deal,
                                                   probe.subscription)]
                 @@ [date_affinity |->
                        MatchDates(probe.deal.departure_date,
                                   probe.subscription.start_date,
                                   probe.subscription.end_date),
                     destination_similarity |->
                        MatchLocation(probe.deal.arrival_city,
                                      probe.subscription.destination),
                     origin_similarity |->
                        MatchLocation(probe.deal.departure_city,
                                      probe.subscription.origin)]
    /\ UNCHANGED <<pvars, mvars, tvars>>

SpecScore == ProbeInit /\ [][Score]_vars

RECURSIVE Ascending(_)
Ascending(S) ==
    IF S = {} THEN <<>>
    ELSE LET m == CHOOSE x \in S : \A y \in S : x <= y
         IN <<m>> \o Ascending(S \ {m})

TrendHistories ==
    UNION {[1..n -> TrendPrices] : n \in 0..MaxHistory}
      \cup {Ascending(S) : S \in {T \in SUBSET RisingPrices :
                                     Cardinality(T) = 6}}

(* get_trend, predict_price and should_buy, each applied once to a route
   whose prices were recorded today, to a route without points and to an
   unknown route *)
TrendInit ==
    /\ now = 0
    /\ adds = 0
    /\ alerts = <<>>
    /\ last = [op |-> "init", route |-> "", price |-> 0, date |-> 0]
    /\ seasonal_patterns = <<>>
    /\ answer = NoAnswer
    /\ price_history \in
          {[r \in {"Berlin-Paris"} |->
               [i \in DOMAIN h |-> NewPoint(h[i], None)]] :
             h \in TrendHistories}
    /\ MatchInit
    /\ NoThreads
    /\ probe = NoProbe

TrendNext ==
    \/ \E route \in Routes : AskTrend(route)
    \/ \E route \in Routes : AskPrediction(route)
    \/ \E route \in Routes, target \in BuyTargets : AskShouldBuy(route, target)

SpecTrend == TrendInit /\ [][TrendNext]_vars

(* count points of the given price on the given day *)
Block(count, price, date) ==
    [i \in 1..count |-> [NewPoint(price, Some(date)) EXCEPT !.defaulted = TRUE]]

SeasonHistories ==
    {Block(counts[1], SeasonPriceOn[1], SeasonDays[1])
       \o Block(counts[2], SeasonPriceOn[2], SeasonDays[2])
       \o Block(counts[3], SeasonPriceOn[3], SeasonDays[3])
       \o Block(counts[4], SeasonPriceOn[4], SeasonDays[4]) :
     counts \in SeasonCounts}

(* The seasonal analysis of a route that has a year of history, while more
   prices are recorded and time passes *)
SeasonInit ==
    /\ now = 0
    /\ adds = 0
    /\ alerts = <<>>
    /\ last = [op |-> "init", route |-> "", price |-> 0, date |-> 0]
    /\ seasonal_patterns = <<>>
    /\ answer = NoAnswer
    /\ price_history \in {[r \in {SeasonRoute} |-> h] : h \in SeasonHistories}
    /\ MatchInit
    /\ NoThreads
    /\ probe = NoProbe

SeasonNext ==
    \/ \E price \in LaterPrices,
          date \in {None} \cup {Some(now + o) : o \in LaterDateOffsets} :
            AddPrice(SeasonRoute, price, date)
    \/ \E t \in Instants : Tick(t)
    \/ \E route \in Routes : AnalyzeSeasonalPatterns(route)
    \/ \E route \in Routes, travel_date \in TravelDates :
          GetSeasonalRecommendation(route, travel_date)
    \/ \E route \in Routes : AskTrend(route)
    \/ \E route \in Routes : AskPrediction(route)
    \/ \E route \in Routes, target \in BuyTargets : AskShouldBuy(route, target)
    \/ \E route \in Routes : AskStatistics(route)

SpecSeason == SeasonInit /\ [][SeasonNext]_vars

(* _get_season applied to one date *)
CalendarInit ==
    /\ now = 0
    /\ adds = 0
    /\ price_history = <<>>
    /\ alerts = <<>>
    /\ last = [op |-> "init", route |-> "", price |-> 0, date |-> 0]
    /\ seasonal_patterns = <<>>
    /\ answer \in {[op |-> "date", date |-> d] : d \in CalendarDays}
    /\ MatchInit
    /\ NoThreads
    /\ probe = NoProbe

SpecCalendar == CalendarInit /\ [][AskSeason]_vars

(* Two calls made at the same time on one route of an engine *)
ThreadInit ==
    /\ now = 0
    /\ adds = 0
    /\ price_history \in ThreadHistories
    /\ alerts \in ThreadAlerts
    /\ last = [op |-> "init", route |-> "", price |-> 0, date |-> 0]
    /\ seasonal_patterns = <<>>
    /\ answer = NoAnswer
    /\ MatchInit
    /\ probe = NoProbe
    /\ threads \in
          {[t \in Threads |->
               [op |-> calls[t].op,
                price |-> calls[t].price,
                pc |-> IF calls[t].op = "add_price" THEN "test_route"
                       ELSE "test_alerts_key",
                list |-> 0,
                kept |-> <<>>,
                i |-> 0]] : calls \in ThreadCalls}
    /\ list_id = [r \in DOMAIN price_history |-> 1]

ThreadNext ==
    \E t \in Threads :
        \/ TestRoute(t)
        \/ NewList(t)
        \/ LoadList(t)
        \/ AppendToList(t)
        \/ FilterList(t)
        \/ StoreList(t)
        \/ TestAlerts(t)
        \/ NextAlert(t)
        \/ Trigger(t)
        \/ TestAlertsKey(t)
        \/ NewAlerts(t)
        \/ AppendAlert(t)

SpecThreads == ThreadInit /\ [][ThreadNext]_vars

----------------------------------------------------------------------------
(* Properties of the price-intelligence engine *)

AlertIds == {<<r, i>> \in Routes \X (1..(MaxCalls + 1)) :
                r \in DOMAIN alerts /\ i \in DOMAIN alerts[r]}

DatesPrices(h) == [i \in DOMAIN h |-> <<h[i].date, h[i].price>>]

(* C3: a PriceAlert triggers exactly once and never resets.  In every step,
   every existing alert keeps its place and its target; alert.triggered =
   True is executed at most once per alert; an alert that was triggered
   stays triggered, is not triggered again, and is in no result of
   get_active_alerts; and add_price creates no alert. *)
C3_TriggersOnceNeverResets ==
    [][/\ \A id \in AlertIds :
            LET r == id[1]
                i == id[2]
            IN /\ r \in DOMAIN alerts'
               /\ i \in DOMAIN alerts'[r]
               /\ alerts'[r][i].target_price = alerts[r][i].target_price
               /\ alerts'[r][i].fired <= 1
               /\ alerts'[r][i].triggered <=> alerts'[r][i].fired = 1
               /\ alerts[r][i].triggered =>
                    /\ alerts'[r][i] = alerts[r][i]
                    /\ id \notin GetActiveAlerts(Some(r))'
                    /\ id \notin GetActiveAlerts(None)'
       /\ last'.op = "add_price" => AlertCount' = AlertCount]_vars

(* C3 witness: an alert of target 105 was triggered by a recorded price of
   100, and the latest call recorded the lower price 95 on its route *)
C3_Witness ==
    /\ last.op = "add_price"
    /\ last.price = 95
    /\ \E i \in DOMAIN AlertsOf(last.route) :
          /\ AlertsOf(last.route)[i].target_price = 105
          /\ AlertsOf(last.route)[i].triggered
          /\ AlertsOf(last.route)[i].reached = 100
          /\ AlertsOf(last.route)[i].fired = 1

(* C4: add_price(route, price) triggers every pending alert of the route
   whose target_price >= price, triggers no alert whose target_price <
   price, and changes no alert of another route. *)
C4_AddPriceFlipsExactly ==
    [][last'.op = "add_price" =>
         \A id \in AlertIds :
            LET r == id[1]
                i == id[2]
                before == alerts[r][i]
                after == alerts'[r][i]
            IN /\ (r = last'.route /\ ~before.triggered
                      /\ before.target_price >= last'.price)
                    => after.triggered
               /\ (r = last'.route /\ ~before.triggered
                      /\ before.target_price < last'.price)
                    => ~after.triggered
               /\ r # last'.route => after = before]_vars

(* C4 witness: the only add_price call so far recorded 100 on a route with
   a triggered alert of target 105 and a pending alert of target 95 *)
C4_Witness ==
    /\ last.op = "add_price"
    /\ adds = 1
    /\ last.price = 100
    /\ \E i, j \in DOMAIN AlertsOf(last.route) :
          /\ AlertsOf(last.route)[i].target_price = 105
          /\ AlertsOf(last.route)[i].triggered
          /\ AlertsOf(last.route)[j].target_price = 95
          /\ ~AlertsOf(last.route)[j].triggered

(* C5 as stated: in every reachable state no route's history holds a point
   older than the retention window *)
C5_NoPointOlderThanWindow ==
    \A r \in DOMAIN price_history :
        \A i \in DOMAIN price_history[r] :
            price_history[r][i].date >= now - RetentionDays

(* C5 amended: right after add_price(route, ...), before the clock moves
   on, the history of that route holds no point older than the retention
   window *)
C5_NoOldPointAfterAddPrice ==
    last.op = "add_price" =>
        \A i \in DOMAIN History(last.route) :
            History(last.route)[i].date >= now - RetentionDays

(* C5 witness: both add_price calls were on the same route, the clock has
   moved between them, and the second call pruned the first point *)
C5_Witness ==
    /\ last.op = "add_price"
    /\ adds = 2
    /\ now = 366
    /\ DOMAIN price_history = {last.route}
    /\ Len(price_history[last.route]) = 1

(* C6 as stated: after add_price, get_route_statistics counts no point
   whose timestamp is more than 365 days older than the latest recorded
   timestamp *)
C6_WindowFromLatestTimestamp ==
    last.op = "add_price" =>
        GetRouteStatistics(last.route).sample_count =
            Cardinality({i \in DOMAIN History(last.route) :
                History(last.route)[i].date >= last.date - RetentionDays})

(* C6 amended: after add_price, get_route_statistics reports on exactly the
   points, the new one included, whose timestamp is less than 365 days
   older than the clock at the call;
   the route is known, so that the report is the dictionary built from its
   history *)
C6_WindowFromClock ==
    [][\A r \in Routes :
        (last'.op = "add_price" /\ last'.route = r) =>
            LET all == Append(DatesPrices(History(r)),
                              <<last'.date, last'.price>>)
                kept == SelectSeq(all, LAMBDA x : x[1] > now - RetentionDays)
                prices == [i \in DOMAIN kept |-> kept[i][2]]
            IN \A st \in {StatisticsOf(History(r)')} :
               /\ r \in DOMAIN price_history'
               /\ st.sample_count = Len(kept)
               /\ kept # <<>> =>
                    /\ st.min_price = Some(MinOf(prices))
                    /\ st.max_price = Some(MaxOf(prices))
                    /\ st.price_sum = Some(SumPrices(prices))
                    /\ st.current_price = Some(prices[Len(prices)])
                    /\ st.last_updated = Some(kept[Len(kept)][1])]_vars

(* C6 witness: the statistics after the second add_price on a route count
   one point, the other having been pruned *)
C6_Witness ==
    /\ last.op = "add_price"
    /\ adds = 2
    /\ DOMAIN price_history = {last.route}
    /\ GetRouteStatistics(last.route).sample_count = 1
    /\ GetRouteStatistics(last.route).last_updated = Some(last.date)

(* C7 as stated: in every route's history each point's timestamp is no
   earlier than that of the point before it *)
C7_SortedByTimestamp ==
    \A r \in DOMAIN price_history :
        \A i \in DOMAIN price_history[r] :
            i > 1 => price_history[r][i - 1].date <= price_history[r][i].date

(* C7 amended: the history is in order of insertion; the points whose
   timestamp was defaulted to the clock are in non-decreasing order of
   timestamp *)
C7_DefaultedInOrder ==
    \A r \in DOMAIN price_history :
        \A i, j \in DOMAIN price_history[r] :
            (i < j /\ price_history[r][i].defaulted
                   /\ price_history[r][j].defaulted)
                => price_history[r][i].date <= price_history[r][j].date

(* C7 witness: a route holds two points with defaulted timestamps taken at
   different instants *)
C7_Witness ==
    \E r \in DOMAIN price_history :
        /\ Len(price_history[r]) = 2
        /\ price_history[r][1].defaulted
        /\ price_history[r][2].defaulted
        /\ price_history[r][1].date < price_history[r][2].date

----------------------------------------------------------------------------
(* Properties of the matcher *)

Unset(subscription) ==
    /\ ~TruthyStr(subscription.destination)
    /\ ~TruthyNum(subscription.max_price)
    /\ ~TruthyStr(subscription.start_date)
    /\ ~TruthyStr(subscription.end_date)
    /\ ~TruthyStr(subscription.origin)

MatchesFor(id) ==
    {k \in DOMAIN call.matches : call.matches[k].subscription_id = id}

(* C1: match_deal_to_subscriptions returns exactly one DealMatch, holding
   the score, for each active subscription whose score is >= 50, and none
   for a subscription that scores below 50 or is not active *)
C1_OneMatchPerQualifyingSubscription ==
    call.made =>
        /\ \A id \in 1..call.table_size :
            LET score == CalculateMatchScore(call.deal,
                                             subscriptions[id]).score
            IN IF subscriptions[id].is_active /\ RLe(Whole(50), score)
               THEN /\ Cardinality(MatchesFor(id)) = 1
                    /\ \A k \in MatchesFor(id) :
                          call.matches[k].match_score = score
               ELSE MatchesFor(id) = {}
        /\ \A k \in DOMAIN call.matches :
              call.matches[k].subscription_id \in 1..call.table_size

(* C1 witness: of three kinds of row, the call matched the active one that
   scores exactly 50 and neither the inactive one nor the one below 50 *)
C1_Witness ==
    /\ call.made
    /\ call.table_size = 2
    /\ Len(call.matches) = 1
    /\ call.matches[1].match_score = Whole(50)
    /\ \E id \in 1..2 :
          \/ ~subscriptions[id].is_active
          \/ RLt(CalculateMatchScore(call.deal, subscriptions[id]).score,
                 Whole(50))

(* C2: a subscription with no destination, max_price, start/end date or
   origin scores exactly 20 + 15 + 10 + 5 = 50 against any deal, which
   clears the threshold *)
C2_NoPreferenceScoresFifty ==
    (probe.done /\ Unset(probe.subscription)) =>
        /\ probe.result.destination = Whole(20)
        /\ probe.result.price = Whole(15)
        /\ probe.result.dates = Whole(10)
        /\ probe.result.origin = Whole(5)
        /\ probe.result.score = Whole(50)
        /\ Accept(probe.result.score)

(* C2 witness: a deal with every field present was scored against a
   subscription with nothing set *)
C2_Witness ==
    /\ probe.done
    /\ Unset(probe.subscription)
    /\ IsNone(probe.subscription.destination)
    /\ ~IsNone(probe.deal.arrival_city)
    /\ ~IsNone(probe.deal.departure_date)
    /\ probe.deal.price = 449
    /\ probe.result.score = Whole(50)

(* C8: for a deal with a positive price the score is between 0 and 100, it
   is the sum of the four parts capped at 100, and no part is negative *)
C8_ScoreInRange ==
    (probe.done /\ probe.deal.price > 0) =>
        LET r == probe.result
            total == RAdd(RAdd(r.destination, r.price),
                          RAdd(r.dates, r.origin))
        IN /\ RLe(Whole(0), r.score) /\ RLe(r.score, Whole(100))
           /\ RLe(Whole(0), r.destination)
           /\ RLe(Whole(0), r.price)
           /\ RLe(Whole(0), r.dates)
           /\ RLe(Whole(0), r.origin)
           /\ r.score = IF RLe(total, Whole(100)) THEN total ELSE Whole(100)

(* C8 witness: a deal 25% over budget, whose price part is 0 *)
C8_Witness ==
    /\ probe.done
    /\ probe.deal.price = 125
    /\ probe.subscription.max_price = Some(100)
    /\ probe.result.price = Whole(0)
    /\ RLe(Whole(0), probe.result.score)

(* C9: the price part is (1 - 0.5*price/max_price)*30 when max_price is set
   and price <= max_price, 15*(1 - overage/0.2) when the overage fraction
   (price - max_price)/max_price is below 0.2, 0 from 20% over, and 15 when
   max_price is not set; 15 at price = max_price = 500, 3.75 at 115 against
   100, 0 at 120 and at 125 against 100 *)
C9_PricePart ==
    probe.done =>
        LET p == probe.deal.price
            set == TruthyNum(probe.subscription.max_price)
            m == IF set THEN Value(probe.subscription.max_price) ELSE 1
            part == probe.result.price
        IN /\ ~set => part = Whole(15)
           /\ (set /\ p <= m) => part = Rat(30 * (2 * m - p), 2 * m)
           /\ (set /\ p > m /\ RLt(Rat(p - m, m), Rat(1, 5)))
                => part = Rat(15 * (6 * m - 5 * p), m)
           /\ (set /\ p > m /\ ~RLt(Rat(p - m, m), Rat(1, 5)))
                => part = Whole(0)
           /\ (set /\ m = 500 /\ p = 500) => part = Whole(15)
           /\ (set /\ m = 100 /\ p = 115) => part = Rat(375, 100)
           /\ (set /\ m = 100 /\ p = 120) => part = Whole(0)
           /\ (set /\ m = 100 /\ p = 125) => part = Whole(0)

(* C9 witness: a deal 15% over a budget of 100 was scored *)
C9_Witness ==
    /\ probe.done
    /\ probe.deal.price = 115
    /\ probe.subscription.max_price = Some(100)
    /\ probe.result.price = Rat(15, 4)

ActiveCount ==
    Cardinality({id \in 1..call.table_size : subscriptions[id].is_active})

(* C10 as stated: scoring raises nothing, every active subscription is
   scored, and a comparison whose deal field is missing contributes the
   flat "no preference" credit of its part *)
C10_MissingFieldGetsFlatCredit ==
    call.made =>
        /\ ~call.raised
        /\ Len(call.evaluated) = ActiveCount
        /\ \A k \in DOMAIN call.evaluated :
            LET sub == subscriptions[call.evaluated[k].subscription_id]
                r == call.evaluated[k].result
            IN /\ (TruthyStr(sub.destination)
                     /\ ~TruthyStr(call.deal.arrival_city))
                    => r.destination = Whole(20)
               /\ (TruthyStr(sub.origin)
                     /\ ~TruthyStr(call.deal.departure_city))
                    => r.origin = Whole(5)
               /\ ((TruthyStr(sub.start_date) \/ TruthyStr(sub.end_date))
                     /\ ~TruthyStr(call.deal.departure_date))
                    => r.dates = Whole(10)

(* C10 amended: scoring raises nothing and every active subscription is
   scored; a field missing on the subscription contributes the flat credit
   of its part (20, 15, 10, 5); a missing deal.departure_date contributes
   0.5 * 20 = 10, the flat credit; a missing deal.arrival_city or
   deal.departure_city contributes 0 when the subscription states a
   destination or an origin *)
C10_MissingFieldsDegrade ==
    call.made =>
        /\ ~call.raised
        /\ Len(call.evaluated) = ActiveCount
        /\ \A k \in DOMAIN call.evaluated :
            LET sub == subscriptions[call.evaluated[k].subscription_id]
                r == call.evaluated[k].result
            IN /\ ~r.raised
               /\ subscriptions[call.evaluated[k].subscription_id].is_active
               /\ \A j \in DOMAIN call.evaluated :
                     j < k => call.evaluated[j].subscription_id
                                < call.evaluated[k].subscription_id
               /\ ~TruthyStr(sub.destination) => r.destination = Whole(20)
               /\ ~TruthyNum(sub.max_price) => r.price = Whole(15)
               /\ (~TruthyStr(sub.start_date) /\ ~TruthyStr(sub.end_date))
                    => r.dates = Whole(10)
               /\ ~TruthyStr(sub.origin) => r.origin = Whole(5)
               /\ ((TruthyStr(sub.start_date) \/ TruthyStr(sub.end_date))
                     /\ ~TruthyStr(call.deal.departure_date))
                    => r.dates = Whole(10)
               /\ (TruthyStr(sub.destination)
                     /\ ~TruthyStr(call.deal.arrival_city))
                    => r.destination = Whole(0)
               /\ (TruthyStr(sub.origin)
                     /\ ~TruthyStr(call.deal.departure_city))
                    => r.origin = Whole(0)

(* C10 witness: a deal without arrival city and departure date was scored
   against a subscription stating a destination and a date, which it did
   not match, and then against the next subscription, which it matched *)
C10_Witness ==
    /\ call.made
    /\ IsNone(call.deal.arrival_city)
    /\ IsNone(call.deal.departure_date)
    /\ Len(call.evaluated) = 2
    /\ TruthyStr(subscriptions[call.evaluated[1].subscription_id].destination)
    /\ TruthyStr(subscriptions[call.evaluated[1].subscription_id].start_date)
    /\ Len(call.matches) = 1
    /\ call.matches[1].subscription_id = call.evaluated[2].subscription_id

(* the number of llm_client.generate calls made by the latest
   match_deal_to_subscriptions call, over the rows among the first k *)
RECURSIVE GenerateCalls(_)
GenerateCalls(k) ==
    IF k = 0 THEN 0
    ELSE call.matches[k].generate_calls + GenerateCalls(k - 1)

(* C11: the rationale oracle is invoked exactly once for each accepted match
   and never for a subscription below 50; when it returns nothing (None or
   the empty string) the rationale is the fallback sentence built from the
   deal's route and price and the subscription's destination or 'travel
   deals', with no second invocation and no exception *)
C11_OracleOncePerMatch ==
    call.made =>
        /\ ~call.raised
        /\ GenerateCalls(Len(call.matches))
             = Cardinality({k \in DOMAIN call.evaluated :
                               RLe(Whole(50), call.evaluated[k].result.score)})
        /\ \A k \in DOMAIN call.matches :
            LET row == call.matches[k]
                sub == subscriptions[row.subscription_id]
            IN /\ row.generate_calls = 1
               /\ RLe(Whole(50), row.match_score)
               /\ (IsNone(row.response) \/ row.response = Some(<<>>))
                    => /\ row.ai_summary.source = "fallback"
                       /\ row.ai_summary.route = call.deal.route
                       /\ row.ai_summary.price = call.deal.price
                       /\ row.ai_summary.search =
                            IF IsNone(sub.destination)
                                 \/ sub.destination = Some(<<>>)
                            THEN <<"t", "r", "a", "v", "e", "l", " ",
                                   "d", "e", "a", "l", "s">>
                            ELSE Value(sub.destination)
               /\ ~(IsNone(row.response) \/ row.response = Some(<<>>))
                    => row.ai_summary.source = "llm"

(* C11 witness: of two active subscriptions one scored below 50 and the
   other was matched; the oracle, asked once, returned nothing and the row
   carries the fallback sentence, naming 'travel deals' *)
C11_Witness ==
    /\ call.made
    /\ Len(call.evaluated) = 2
    /\ Len(call.matches) = 1
    /\ GenerateCalls(1) = 1
    /\ IsNone(call.matches[1].response)
    /\ call.matches[1].ai_summary.source = "fallback"
    /\ call.matches[1].ai_summary.search
         = <<"t", "r", "a", "v", "e", "l", " ", "d", "e", "a", "l", "s">>

----------------------------------------------------------------------------
(* Properties of the trend, the prediction and the buying advice *)

AskedPrices == PricesOf(answer.history)

StrictlyRising(prices) ==
    \A i \in DOMAIN prices : i > 1 => prices[i - 1] < prices[i]

Flat(prices) == \A i \in DOMAIN prices : prices[i] = prices[1]

\* three times the sum of the older window minus its length times the sum
\* of the recent one is the sign of the change; with k older prices of sum
\* o and three recent prices of sum r the percentage change is
\* 100 * (r * k - 3 * o) / (3 * o)
RecentSum(prices) == SumPrices(SubSeq(prices, Len(prices) - 2, Len(prices)))

OlderCount(prices) == IF Len(prices) >= 6 THEN 3 ELSE Len(prices) - 3

OlderSum(prices) ==
    SumPrices(SubSeq(prices, Len(prices) - 2 - OlderCount(prices),
                     Len(prices) - 3))

ExpectedTrend(prices) ==
    IF Len(prices) < 2 \/ OlderCount(prices) <= 0 THEN "unknown"
    ELSE LET change == 100 * (RecentSum(prices) * OlderCount(prices)
                                - 3 * OlderSum(prices))
             five == 5 * 3 * OlderSum(prices)
         IN IF change > five THEN "rising"
            ELSE IF change < -five THEN "falling"
            ELSE "stable"

(* C12: get_trend returns "unknown" for fewer than 2 points or an empty
   older window; otherwise it compares the mean of the last 3 points with
   the mean of the 3 before them (of all that precede the last 3 when there
   are fewer than 6) and returns "rising" above +5 percent, "falling" below
   -5 percent and "stable" otherwise, exactly +5 and -5 included *)
C12_TrendRule ==
    answer.op = "get_trend" =>
        /\ ~answer.result.raised
        /\ answer.result.value = ExpectedTrend(AskedPrices)
        /\ Len(AskedPrices) <= 3 => answer.result.value = "unknown"

(* C12 witness: five points, the last three exactly 5 percent above the
   two before them, are "stable" *)
C12_Witness ==
    /\ answer.op = "get_trend"
    /\ AskedPrices = <<100, 100, 105, 105, 105>>
    /\ answer.result.value = "stable"

(* C13 as stated: get_trend on a strictly rising series of 6 points is
   "rising" *)
C13_RisingSeriesIsRising ==
    (answer.op = "get_trend" /\ Len(AskedPrices) = 6
        /\ StrictlyRising(AskedPrices))
      => answer.result.value = "rising"

(* C13 amended: get_trend on a strictly rising series of 6 points is
   "rising" when the mean of the last three prices is more than 5 percent
   above the mean of the first three, and "stable" otherwise *)
C13_RisingSeriesByFivePercent ==
    (answer.op = "get_trend" /\ Len(AskedPrices) = 6
        /\ StrictlyRising(AskedPrices))
      => LET first == SumPrices(SubSeq(AskedPrices, 1, 3))
             second == SumPrices(SubSeq(AskedPrices, 4, 6))
         IN answer.result.value =
               IF 20 * (second - first) > first THEN "rising" ELSE "stable"

(* C13 witness: a series rising by one a day is "stable" *)
C13_Witness ==
    /\ answer.op = "get_trend"
    /\ AskedPrices = <<100, 101, 102, 103, 104, 105>>
    /\ answer.result.value = "stable"

(* C14 as stated: get_trend on a flat series of at least 2 points is
   "stable" *)
C14_FlatSeriesIsStable ==
    (answer.op = "get_trend" /\ Len(AskedPrices) >= 2 /\ Flat(AskedPrices))
      => answer.result.value = "stable"

(* C14 amended: get_trend on a flat series is "stable" from 4 points on and
   "unknown" with 2 or 3 points *)
C14_FlatSeriesFromFourPoints ==
    (answer.op = "get_trend" /\ Len(AskedPrices) >= 2 /\ Flat(AskedPrices))
      => answer.result.value =
            IF Len(AskedPrices) >= 4 THEN "stable" ELSE "unknown"

(* C14 witness: a flat series of four points is "stable" *)
C14_Witness ==
    /\ answer.op = "get_trend"
    /\ AskedPrices = <<100, 100, 100, 100>>
    /\ answer.result.value = "stable"

(* C15: predict_price returns None with fewer than 5 points; otherwise
   falling -> wait, 0.85 * current, 0.75; rising -> buy_now, current, 0.75;
   stable and current < 0.9 * avg -> buy_now, current, 0.65; stable and
   current > 1.1 * avg -> wait, 0.9 * avg, 0.65; stable otherwise ->
   neutral, min, 0.5; predicted_high is the maximum price *)
C15_PredictionPolicy ==
    answer.op = "predict_price" =>
        LET prices == AskedPrices
            n == Len(prices)
            total == SumPrices(prices)
            current == prices[n]
            trend == GetTrend(answer.route).value
        IN /\ ~answer.result.raised
           /\ n < 5 => IsNone(answer.result.value)
           /\ n >= 5 =>
                /\ ~IsNone(answer.result.value)
                /\ LET prediction == Value(answer.result.value)
                       outcome == <<prediction.recommendation,
                                    prediction.predicted_low,
                                    prediction.confidence>>
                   IN /\ prediction.current_price = current
                      /\ prediction.predicted_high = MaxOf(prices)
                      /\ outcome =
                           IF trend = "falling"
                           THEN <<"wait", Rat(85 * current, 100), Rat(3, 4)>>
                           ELSE IF trend = "rising"
                           THEN <<"buy_now", Whole(current), Rat(3, 4)>>
                           ELSE IF 10 * current * n < 9 * total
                           THEN <<"buy_now", Whole(current), Rat(13, 20)>>
                           ELSE IF 10 * current * n > 11 * total
                           THEN <<"wait", Rat(9 * total, 10 * n),
                                  Rat(13, 20)>>
                           ELSE <<"neutral", Whole(MinOf(prices)), Rat(1, 2)>>

(* C15 witness: a stable route whose current price is more than 10 percent
   above its average: wait, with 0.9 * avg as predicted low *)
C15_Witness ==
    /\ answer.op = "predict_price"
    /\ AskedPrices = <<100, 100, 100, 60, 100, 140>>
    /\ ~IsNone(answer.result.value)
    /\ Value(answer.result.value).recommendation = "wait"
    /\ Value(answer.result.value).predicted_low = Whole(90)
    /\ Value(answer.result.value).confidence = Rat(65, 100)
    /\ Value(answer.result.value).predicted_high = 140

(* C16: with a prediction available, should_buy(route, target_price) is
   True whenever the current price is <= target_price, whatever the
   recommendation *)
C16_TargetPriceWins ==
    (/\ answer.op = "should_buy"
     /\ ~IsNone(answer.prediction.value)
     /\ ~IsNone(answer.target_price)
     /\ Value(answer.prediction.value).current_price
          <= Value(answer.target_price))
      => /\ ~answer.result.raised
         /\ answer.result.should_buy = Some(TRUE)
         /\ answer.result.reason = "target"

(* C16 witness: the recommendation is to wait, the current price is within
   the target, and should_buy is True *)
C16_Witness ==
    /\ answer.op = "should_buy"
    /\ ~IsNone(answer.prediction.value)
    /\ Value(answer.prediction.value).recommendation = "wait"
    /\ answer.target_price = Some(100)
    /\ Value(answer.prediction.value).current_price = 95
    /\ answer.result.should_buy = Some(TRUE)

----------------------------------------------------------------------------
(* Properties of the seasonal analysis *)

\* how many points of a history fall in the bucket of a season
InSeason(history, season) ==
    Cardinality({i \in DOMAIN history :
                    GetSeason(MonthOf(history[i].date)) = season})

(* C17: for a route with at least 10 points analyze_seasonal_patterns has
   an entry for a season if and only if at least 3 of the route's points
   fall in its bucket; for a route with fewer than 10 points the result is
   empty *)
C17_SeasonsWithThreeSamples ==
    answer.op = "analyze_seasonal_patterns" =>
        IF Len(answer.history) >= 10
        THEN /\ DOMAIN answer.result \subseteq Seasons
             /\ \A season \in Seasons :
                   /\ season \in DOMAIN answer.result
                        <=> InSeason(answer.history, season) >= 3
                   /\ season \in DOMAIN answer.result
                        => answer.result[season].sample_count
                             = InSeason(answer.history, season)
        ELSE answer.result = <<>>

(* C17 witness: of 10 points 3 are in February and 2 in June; there is an
   entry for winter and none for off_peak *)
C17_Witness ==
    /\ answer.op = "analyze_seasonal_patterns"
    /\ Len(answer.history) = 10
    /\ InSeason(answer.history, "winter") = 3
    /\ InSeason(answer.history, "off_peak") = 2
    /\ "winter" \in DOMAIN answer.result
    /\ "off_peak" \notin DOMAIN answer.result

(* C18: _get_season puts every month 1..12 in a named bucket: December and
   January in holiday, never winter; July and August in summer; March to
   May in spring; September to November in autumn; February in winter *)
C18_SeasonOfMonth ==
    answer.op = "_get_season" =>
        /\ answer.month \in 1..12
        /\ answer.result \in Seasons
        /\ answer.month \in {12, 1} => answer.result = "holiday"
        /\ answer.month \in {7, 8} => answer.result = "summer"
        /\ answer.month \in {3, 4, 5} => answer.result = "spring"
        /\ answer.month \in {9, 10, 11} => answer.result = "autumn"
        /\ answer.month = 2 => answer.result = "winter"

(* C18 witness: a day of December is in holiday *)
C18_Witness ==
    /\ answer.op = "_get_season"
    /\ answer.month = 12
    /\ answer.date = 364
    /\ answer.result = "holiday"

(* C19: with an unknown route or fewer points than the minimum, get_trend
   returns "unknown", analyze_seasonal_patterns the empty map,
   predict_price None, should_buy should_buy = None and
   get_seasonal_recommendation neutral with "Not enough seasonal data";
   none of them raises *)
C19_InsufficientHistoryByValue ==
    /\ (answer.op = "get_trend" /\ Len(answer.history) < 2)
          => answer.result = [raised |-> FALSE, value |-> "unknown"]
    /\ (answer.op = "analyze_seasonal_patterns" /\ Len(answer.history) < 10)
          => answer.result = <<>>
    /\ (answer.op = "predict_price" /\ Len(answer.history) < 5)
          => answer.result = [raised |-> FALSE, value |-> None]
    /\ (answer.op = "should_buy" /\ Len(answer.history) < 5)
          => /\ ~answer.result.raised
             /\ IsNone(answer.result.should_buy)
    /\ (answer.op = "get_seasonal_recommendation"
          /\ Len(answer.history) < 10)
          => /\ ~answer.result.raised
             /\ answer.result.recommendation = "neutral"
             /\ answer.result.reason = "Not enough seasonal data"

(* C20: get_seasonal_recommendation uses the seasonal patterns computed
   from the history the route has when it is called, never patterns
   computed before the latest add_price *)
C20_RecommendationUsesCurrentPatterns ==
    answer.op = "get_seasonal_recommendation" =>
        answer.result.patterns =
            IF Len(answer.history) >= 10
            THEN SeasonalPatternsOf(answer.history)
            ELSE <<>>

----------------------------------------------------------------------------
(* Properties of the statistics, the alerts and the predictions *)

(* C21: get_route_statistics(route) returns the empty mapping for an unknown
   route; otherwise its fields are computed from the history retained at
   the call: sample_count is the number of retained points, current_price
   the price of the last point, min_price and max_price the extremes, and
   min_price <= median_price <= max_price; for a known route left without
   points the count is 0 and the price fields are None *)
C21_StatisticsFromRetainedHistory ==
    answer.op = "get_route_statistics" =>
        LET st == answer.result
            h == answer.history
        IN IF ~answer.known THEN st = [empty |-> TRUE]
           ELSE /\ ~st.empty
                /\ st.sample_count = Len(h)
                /\ IF h = <<>>
                   THEN /\ IsNone(st.current_price)
                        /\ IsNone(st.min_price)
                        /\ IsNone(st.median_price)
                        /\ IsNone(st.max_price)
                        /\ IsNone(st.last_updated)
                   ELSE /\ st.current_price = Some(h[Len(h)].price)
                        /\ st.last_updated = Some(h[Len(h)].date)
                        /\ \A i \in DOMAIN h :
                              /\ Value(st.min_price) <= h[i].price
                              /\ h[i].price <= Value(st.max_price)
                        /\ \E i \in DOMAIN h : h[i].price = Value(st.min_price)
                        /\ \E i \in DOMAIN h : h[i].price = Value(st.max_price)
                        /\ RLe(Whole(Value(st.min_price)),
                               Value(st.median_price))
                        /\ RLe(Value(st.median_price),
                               Whole(Value(st.max_price)))
                        /\ 2 * Cardinality({i \in DOMAIN h :
                                  RLt(Whole(h[i].price),
                                      Value(st.median_price))}) <= Len(h)
                        /\ 2 * Cardinality({i \in DOMAIN h :
                                  RLt(Value(st.median_price),
                                      Whole(h[i].price))}) <= Len(h)

(* C21 witness: the statistics asked after a price of 95 was recorded on a
   route that held ten points: eleven samples, current price 95, minimum
   60 below the median 100 below the maximum 140 *)
C21_Witness ==
    /\ answer.op = "get_route_statistics"
    /\ answer.known
    /\ adds = 1
    /\ answer.result.sample_count = 11
    /\ answer.result.current_price = Some(95)
    /\ answer.result.min_price = Some(60)
    /\ answer.result.median_price = Some(Whole(100))
    /\ answer.result.max_price = Some(140)

(* C22: for a subscription stating only a destination and a max_price and
   a deal whose arrival city is that destination, letter case apart, at a
   price <= max_price, the score is 40 + (1 - 0.5 * price / max_price) * 30
   + 10 + 5 (71.53 for 449 against 500), which is >= 50, and exactly one
   DealMatch with that score is returned for the subscription *)
C22_DestinationAndBudgetMatch ==
    call.made =>
        \A k \in DOMAIN call.evaluated :
            LET id == call.evaluated[k].subscription_id
                sub == subscriptions[id]
                r == call.evaluated[k].result
                p == call.deal.price
                m == Value(sub.max_price)
            IN (/\ TruthyStr(sub.destination)
                /\ TruthyNum(sub.max_price)
                /\ ~TruthyStr(sub.start_date)
                /\ ~TruthyStr(sub.end_date)
                /\ ~TruthyStr(sub.origin)
                /\ TruthyStr(call.deal.arrival_city)
                /\ Lower(Value(call.deal.arrival_city))
                     = Lower(Value(sub.destination))
                /\ p <= m)
               => /\ r.score = Rat(55 * 2 * m + 30 * (2 * m - p), 2 * m)
                  /\ (p = 449 /\ m = 500) => r.score = Rat(7153, 100)
                  /\ RLe(Whole(50), r.score)
                  /\ Cardinality(MatchesFor(id)) = 1
                  /\ \A j \in MatchesFor(id) :
                        call.matches[j].match_score = r.score

(* C22 witness: the deal to Paris at 449 was matched against a table whose
   only active row asks for paris up to 500; the one DealMatch returned
   scores 71.53 *)
C22_Witness ==
    /\ call.made
    /\ call.deal.price = 449
    /\ Len(call.evaluated) = 1
    /\ subscriptions[call.evaluated[1].subscription_id].max_price = Some(500)
    /\ Len(call.matches) = 1
    /\ call.matches[1].match_score = Rat(7153, 100)

\* the three-letter month abbreviations found in a string, letter case
\* apart
MonthTokens(str) == {month \in Months : Contains(month, Lower(str))}

(* C23: _match_dates(deal_date, start, end) returns 0.5 when deal_date is
   unknown, 0.5 when neither start nor end is stated (0.5 for None, None,
   None), 1.0 when the deal date and a stated bound contain the same
   three-letter month abbreviation, and 0.3 otherwise; the date part of the
   score is that value times 20, or the flat 10 when neither bound is set *)
C23_DateAffinity ==
    probe.done =>
        LET deal_date == probe.deal.departure_date
            start == probe.subscription.start_date
            end == probe.subscription.end_date
            affinity == probe.date_affinity
            Shares(bound) ==
                /\ TruthyStr(bound)
                /\ MonthTokens(Value(deal_date))
                      \cap MonthTokens(Value(bound)) # {}
        IN /\ ~affinity.raised
           /\ affinity.value =
                 IF IsNone(deal_date) \/ deal_date = Some(<<>>)
                 THEN Rat(1, 2)
                 ELSE IF ~TruthyStr(start) /\ ~TruthyStr(end) THEN Rat(1, 2)
                 ELSE IF Shares(start) \/ Shares(end) THEN Whole(1)
                 ELSE Rat(3, 10)
           /\ (IsNone(deal_date) /\ IsNone(start) /\ IsNone(end))
                => affinity.value = Rat(1, 2)
           /\ probe.result.dates =
                 IF TruthyStr(start) \/ TruthyStr(end)
                 THEN RMul(affinity.value, Whole(20))
                 ELSE Whole(10)

(* C23 witness: a deal leaving on "Apr 15" against a subscription from
   "May" to "apr": the end bound shares the month, the affinity is 1.0 and
   the date part 20 *)
C23_Witness ==
    /\ probe.done
    /\ probe.deal.departure_date = Some(<<"A", "p", "r", " ", "1", "5">>)
    /\ probe.subscription.start_date = Some(<<"M", "a", "y">>)
    /\ probe.subscription.end_date = Some(<<"a", "p", "r">>)
    /\ probe.date_affinity.value = Whole(1)
    /\ probe.result.dates = Whole(20)

\* two strings that are equal or differ only in the case of letters
SameButCase(x, y) ==
    /\ Len(x) = Len(y)
    /\ \A i \in DOMAIN x :
          \/ x[i] = y[i]
          \/ \E k \in DOMAIN UpperCase :
                {x[i], y[i]} = {UpperCase[k], LowerCase[k]}

\* the _match_location calls made on the pair scored: the arguments and
\* the result of each
LocationCalls ==
    {<<probe.deal.arrival_city, probe.subscription.destination,
       probe.destination_similarity>>,
     <<probe.deal.departure_city, probe.subscription.origin,
       probe.origin_similarity>>}

(* C24: _match_location(x, x) is 1.0 for every non-empty x, also when the
   two arguments differ only in letter case, and _match_location is 0.0
   whenever an argument is empty or missing; it never raises *)
C24_LocationSimilarity ==
    probe.done =>
        \A c \in LocationCalls :
            LET location1 == c[1]
                location2 == c[2]
                missing == \/ IsNone(location1) \/ location1 = Some(<<>>)
                           \/ IsNone(location2) \/ location2 = Some(<<>>)
            IN /\ ~c[3].raised
               /\ missing => c[3].value = Whole(0)
               /\ (~missing /\ SameButCase(Value(location1), Value(location2)))
                    => c[3].value = Whole(1)

(* C24 witness: "nyc" against "NYC" is 1.0, and "Paris" against an empty
   destination is 0.0 *)
C24_Witness ==
    /\ probe.done
    /\ probe.deal.departure_city = Some(<<"n", "y", "c">>)
    /\ probe.subscription.origin = Some(<<"N", "Y", "C">>)
    /\ probe.origin_similarity.value = Whole(1)
    /\ probe.deal.arrival_city = Some(Paris)
    /\ probe.subscription.destination = Some(<<>>)
    /\ probe.destination_similarity.value = Whole(0)

\* both calls have returned
CallsReturned ==
    /\ threads # <<>>
    /\ \A t \in Threads : threads[t].pc = "done"

(* C25: when two add_price calls, or an add_price and a create_alert call,
   on one route are interleaved, no update is lost: once both have
   returned, the point of every add_price call is in the route's history,
   and every alert that was pending before the calls and whose
   target_price >= a recorded price is triggered *)
C25_NoUpdateLost ==
    CallsReturned =>
        /\ \A t \in Threads :
              threads[t].op = "add_price" =>
                  \E i \in DOMAIN History(ThreadRoute) :
                      History(ThreadRoute)[i].price = threads[t].price
        /\ \A i \in DOMAIN AlertsOf(ThreadRoute) :
              LET alert == AlertsOf(ThreadRoute)[i]
              IN (/\ \A t \in Threads :
                        threads[t].op = "create_alert"
                            => alert.target_price # threads[t].price
                  /\ \E t \in Threads :
                        /\ threads[t].op = "add_price"
                        /\ threads[t].price <= alert.target_price)
                 => alert.triggered

\* the point of the latest add_price call is in the history of its route
PointRecorded ==
    \E k \in DOMAIN History(last.route) :
        /\ History(last.route)[k].date = last.date
        /\ History(last.route)[k].price = last.price

(* C26 as stated: whenever add_price flips an alert to triggered, the point
   that caused it is in the route's history right after the call; a price
   whose point the same call prunes triggers no alert *)
C26_TriggeringPointIsRetained ==
    [][(/\ last'.op = "add_price"
        /\ \E id \in AlertIds :
              /\ id[1] = last'.route
              /\ ~alerts[id[1]][id[2]].triggered
              /\ alerts'[id[1]][id[2]].triggered)
       => PointRecorded']_vars

(* C26 amended: add_price judges the pending alerts of the route on the
   price passed to it, whether or not its point survives the pruning: every
   pending alert with target_price >= price flips, and the point is in the
   history right after the call if and only if its timestamp is later than
   the clock minus 365 days *)
C26_AlertsJudgeThePricePassed ==
    [][last'.op = "add_price" =>
         /\ PointRecorded' <=> last'.date > now - RetentionDays
         /\ \A id \in AlertIds :
               (/\ id[1] = last'.route
                /\ ~alerts[id[1]][id[2]].triggered
                /\ alerts[id[1]][id[2]].target_price >= last'.price)
               => /\ alerts'[id[1]][id[2]].triggered
                  /\ alerts'[id[1]][id[2]].reached = last'.price]_vars

(* C26 witness: the only add_price call so far carried a timestamp older
   than the retention window; its point is not in the history, and it has
   triggered an alert *)
C26_Witness ==
    /\ last.op = "add_price"
    /\ adds = 1
    /\ last.date <= now - RetentionDays
    /\ ~PointRecorded
    /\ History(last.route) = <<>>
    /\ \E i \in DOMAIN AlertsOf(last.route) :
          /\ AlertsOf(last.route)[i].triggered
          /\ AlertsOf(last.route)[i].reached = last.price

(* C27: in every reachable state get_seasonal_recommendation(route,
   travel_date) returns a result whose recommendation is buy_now, wait or
   neutral and raises nothing, also when the patterns cached for the route
   were computed before later add_price calls pruned its history down to no
   point *)
C27_SeasonalRecommendationNeverRaises ==
    answer.op = "get_seasonal_recommendation" =>
        /\ ~answer.result.raised
        /\ answer.result.recommendation \in {"buy_now", "wait", "neutral"}

(* C28: create_alert never evaluates the current price.  The alert it
   appends is pending, also when the latest price of the route is already
   at or below its target, and the call changes no other alert and no
   history.  A pending alert stays pending in every step that is not an
   add_price on its route with a price <= target_price, and such an
   add_price triggers it *)
C28_NewAlertPendingUntilLaterPrice ==
    [][/\ last'.op = "create_alert" =>
            LET r == last'.route
                n == Len(alerts'[r])
            IN /\ n = Len(AlertsOf(r)) + 1
               /\ alerts'[r][n].target_price = last'.price
               /\ ~alerts'[r][n].triggered
               /\ alerts'[r][n].fired = 0
               /\ \E route \in Routes :
                     /\ route = r
                     /\ <<route, n>> \in GetActiveAlerts(Some(route))'
               /\ \A id \in AlertIds : alerts'[id[1]][id[2]] = alerts[id[1]][id[2]]
               /\ price_history' = price_history
       /\ \A id \in AlertIds :
            ~alerts[id[1]][id[2]].triggered =>
               (alerts'[id[1]][id[2]].triggered
                  <=> /\ last'.op = "add_price"
                      /\ adds' = adds + 1
                      /\ last'.route = id[1]
                      /\ last'.price <= alerts[id[1]][id[2]].target_price)]_vars

(* C28 witness: the latest call created an alert of target 105 on a route
   whose current price is 95; the alert is pending, and an older alert of
   the route was triggered by that price *)
C28_Witness ==
    /\ last.op = "create_alert"
    /\ last.price = 105
    /\ GetCurrentPrice(last.route) = Some(95)
    /\ LET a == AlertsOf(last.route)
       IN /\ Len(a) = 2
          /\ a[2].target_price = 105
          /\ ~a[2].triggered
          /\ a[1].triggered
          /\ a[1].reached = 95

(* C29: whenever predict_price returns a prediction for a route whose
   retained prices are all positive, predicted_low <= current_price <=
   predicted_high, whichever branch of the policy produced it, and the
   trend of the route is rising, falling or stable: with 5 or more points
   the older window of get_trend is not empty, so it is never "unknown" *)
C29_PredictionBracketsCurrentPrice ==
    (/\ answer.op = "predict_price"
     /\ ~IsNone(answer.result.value)
     /\ \A i \in DOMAIN AskedPrices : AskedPrices[i] > 0)
    => LET prediction == Value(answer.result.value)
           trend == TrendOf(answer.history)
       IN /\ RLe(prediction.predicted_low, Whole(prediction.current_price))
          /\ prediction.current_price <= prediction.predicted_high
          /\ Len(answer.history) >= MinHistoryForPrediction
          /\ OlderWindow(answer.history) # <<>>
          /\ ~trend.raised
          /\ trend.value \in {"rising", "falling", "stable"}

(* C29 witness: a falling route of five points, whose older window has two
   points: the predicted low is 85 percent of the current price 100 and the
   predicted high is the maximum 140, above the current price *)
C29_Witness ==
    /\ answer.op = "predict_price"
    /\ AskedPrices = <<140, 140, 100, 100, 100>>
    /\ ~IsNone(answer.result.value)
    /\ TrendOf(answer.history).value = "falling"
    /\ Len(OlderWindow(answer.history)) = 2
    /\ Value(answer.result.value).predicted_low = Whole(85)
    /\ Value(answer.result.value).current_price = 100
    /\ Value(answer.result.value).predicted_high = 140

\* the prices of the deals scored
ProbePrices == {deal.price : deal \in ProbeDeals}

(* C30: for a subscription with a positive max_price the match score never
   rises with the deal price: a deal that differs from the one scored only
   in a lower price scores at least as much, in the price part and in
   total.  The price part has no jump at the budget: it is 15 at price =
   max_price, 15 + 15 * (max_price - price) / max_price below it, and
   15 - 75 * (price - max_price) / max_price above it up to 20 percent over,
   so both sides meet at 15 *)
C30_ScoreFallsWithPrice ==
    (/\ probe.done
     /\ TruthyNum(probe.subscription.max_price)
     /\ Value(probe.subscription.max_price) > 0)
    => LET p == probe.deal.price
           m == Value(probe.subscription.max_price)
       IN /\ \A q \in ProbePrices :
                q < p =>
                  LET cheaper == CalculateMatchScore(
                                    [probe.deal EXCEPT !.price = q],
                                    probe.subscription)
                  IN /\ cheaper.raised = probe.result.raised
                     /\ RLe(probe.result.price, cheaper.price)
                     /\ RLe(probe.result.score, cheaper.score)
          /\ p = m => probe.result.price = Whole(15)
          /\ p <= m => probe.result.price = RAdd(Whole(15), Rat(15 * (m - p), m))
          /\ (p > m /\ 5 * (p - m) < m)
                => probe.result.price = RSub(Whole(15), Rat(75 * (p - m), m))
          /\ p > m => RLe(probe.result.price, Whole(15))

(* C30 witness: a deal of 501 was scored against a budget of 500: its price
   part is 14.85, just under the 15 a deal of exactly 500 gets, and the
   same deal at 449 scores more in total *)
C30_Witness ==
    /\ probe.done
    /\ probe.deal.price = 501
    /\ probe.subscription.max_price = Some(500)
    /\ probe.result.price = Rat(1485, 100)
    /\ PricePart([probe.deal EXCEPT !.price = 500], probe.subscription)
          = Whole(15)
    /\ RLt(probe.result.score,
           CalculateMatchScore([probe.deal EXCEPT !.price = 449],
                               probe.subscription).score)

=============================================================================
